---- MODULE Spec2Model ----
(***************************************************************************)
(* Model of the session daemon's UST application registry and lifecycle    *)
(* (src/bin/lttng-sessiond/ust-app.c).                                     *)
(*                                                                         *)
(* Spec     : registry indices under every outcome of ust_app_register,    *)
(*            unregistration, the RCU read side and the deferred           *)
(*            delete_ust_app callback.                                     *)
(* SpecLife : lifecycle of the accepted apps: version handshake, sessions  *)
(*            created by readers, unregistration and deletion.             *)
(* SpecRcu  : sessions looked up and destroyed by a command thread while   *)
(*            ust_app_unregister walks the sessions of the app.            *)
(* SpecKey  : channel allocation by concurrent threads and the channel key *)
(*            counter.                                                     *)
(* SpecEvt  : the events hash table of one ust_app_channel.                *)
(* SpecEvKey: events of one name created, enabled and disabled by key.     *)
(* SpecChan : creation of the channels and the metadata of one app's       *)
(*            session under every outcome of create_ust_channel.           *)
(* SpecTrace: start, stop and teardown of the session of one app.          *)
(* SpecOrder: sessions, channels and events of one app and the order of    *)
(*            the calls made to its tracer.                                *)
(* SpecGlb  : the operations that walk ust_app_ht, over two apps.          *)
(* SpecMiss : channels and events of two apps when a channel is created   *)
(*            for one app only.                                            *)
(* SpecList : enumeration of the tracepoints and fields of two apps.       *)
(* SpecHandoff: the handoff of channels and streams, of an app's channel   *)
(*            to the application and of a kernel channel to the kernel     *)
(*            consumer (kernel-consumer.c).                                *)
(***************************************************************************)
EXTENDS Integers, Sequences, FiniteSets, TLC

(***************************************************************************)
(* Bounds of the model.                                                    *)
(***************************************************************************)
MaxRegs == 2
MaxChans == 4
MaxEvents == 3
MaxStreams == 2
MaxKChans == 2
MaxKStreams == 2

(***************************************************************************)
(* Program constants.                                                      *)
(***************************************************************************)
LTTNG_UST_COMM_MAJOR == 2
UST_APP_MAJOR_VERSION == 2
DEFAULT_UST_STREAM_FD_NUM == 2
UST_APP_EVENT_LIST_SIZE == 32

(***************************************************************************)
(* Input domains.                                                          *)
(***************************************************************************)
Pids == {100, 101}
Socks == {7, 8}
Bits == {32, 64}
Majors == {LTTNG_UST_COMM_MAJOR, 99}
TracerMajors == {UST_APP_MAJOR_VERSION, UST_APP_MAJOR_VERSION + 1}
Readers == {1}
Threads == {1, 2}
ChanTypes == {"PER_CPU", "METADATA"}
EventNames == {"ev_a", "ev_b"}
\* Loglevel type and value as found in the attributes of an event.
Loglevels == {[type |-> "ALL", value |-> -1], [type |-> "ALL", value |-> 0],
              [type |-> "SINGLE", value |-> 5]}
\* Filter bytecode: absent, or len bytes of data.
NoFilter == [present |-> FALSE, data |-> <<>>]
Filters == {NoFilter, [present |-> TRUE, data |-> <<1>>],
            [present |-> TRUE, data |-> <<1, 2>>]}
SessIds == {1}
NoApp == 0
\* Apps of the session model, channel names of the global domain and event
\* names of a channel.
TraceApps == {1, 2}
ChanNames == {"ch1", "ch2"}
SessEvents == {"ev_a"}
\* Negative codes of the tracer: the app is gone (-EPIPE,
\* -LTTNG_UST_ERR_EXITING) or any other error.  The code handles both codes
\* of a gone app alike; the flush outcomes draw both.
UstErrs == {"EPIPE", "ERR"}
FlushErrs == {"EPIPE", "EXITING", "ERR"}
Vanished == {"EPIPE", "EXITING"}

VARIABLES
    apps,                \* one record per call of ust_app_register, in call order
    ust_app_ht,          \* index by pid: pid -> app id or NoApp
    ust_app_ht_by_sock,  \* index by socket: sock -> app id or NoApp
    ust_consumerd32_fd,  \* "fd" or "EINVAL"
    ust_consumerd64_fd,  \* "fd" or "EINVAL"
    sockfd,              \* the process' descriptor table: sock -> owner or NoApp
    fd_apps,             \* LTTNG_FD_APPS units in use
    lpc,                 \* position of the application management thread
    rdr,                 \* reader threads: read-side lock and the app obtained
    rcu_cbs,             \* callbacks queued by call_rcu, with the readers awaited
    chk,                 \* assertion failures and bad closes seen so far
    next_channel_key,    \* the process-wide channel key counter
    ua_chans,            \* channels allocated so far, in allocation order
    tpc,                 \* position of each channel-allocating thread
    events,              \* events hash table of one ust_app_channel
    ev_ret,              \* outcome of the last create_ust_app_event
    ev_glb,              \* history: the last enable/disable pair on the channel
    usess,               \* the global UST session (struct ltt_ust_session)
    uapps,               \* registered apps and their ust_app_session
    op,                  \* the last operation run and its return value
    calls,               \* tracer, consumer and fd calls of that operation
    ksess,               \* the kernel session (struct ltt_kernel_session)
    kop,                 \* the last kernel consumer operation and its return
    kmsgs                \* messages of that operation to the kernel consumer

regvars == <<apps, ust_app_ht, ust_app_ht_by_sock, ust_consumerd32_fd,
             ust_consumerd64_fd, sockfd, fd_apps, lpc, rdr, rcu_cbs, chk>>
keyvars == <<next_channel_key, ua_chans, tpc>>
evtvars == <<events, ev_ret, ev_glb>>
sessvars == <<usess, uapps, op, calls>>
kernvars == <<ksess, kop, kmsgs>>
vars == <<regvars, keyvars, evtvars, sessvars, kernvars>>

\* A descriptor number that is open but belongs to no app.
Leaked == -1

\* The application management thread between two calls.  While it is inside
\* ust_app_register, bits and major hold the fields of the message.
\* Inside the session loop of ust_app_unregister, ua_sess is the id of the
\* session the iterator stands on.
Idle == [op |-> "idle", app |-> NoApp, sock |-> NoApp, bits |-> NoApp,
         major |-> NoApp, closes |-> 0, puts |-> 0, ua_sess |-> NoApp]

\* No ust_app_session held by a reader.
NoUaSessPtr == [app |-> NoApp, sid |-> NoApp]

\* A thread outside any read-side critical section: it holds no pointer.
NoReader == [locked |-> FALSE, app |-> NoApp, ua_sess |-> NoUaSessPtr]

(***************************************************************************)
(* Hash table primitives as ust-app.c uses them.                           *)
(***************************************************************************)
\* Variant that keeps an older node under the key.
lttng_ht_add_replace_ulong_mut_keep(ht, key, a) ==
    IF ht[key] = NoApp THEN [ht EXCEPT ![key] = a] ELSE ht

\* lttng_ht_add_replace_ulong: the new node takes the key, an older node
\* under the same key is unlinked.
lttng_ht_add_replace_ulong(ht, key, a) == [ht EXCEPT ![key] = a]

\* Variant that never links the node.
lttng_ht_add_unique_ulong_mut_skip(ht, key, a) == ht

\* lttng_ht_add_unique_ulong: added only when the key is free.
lttng_ht_add_unique_ulong(ht, key, a) ==
    IF ht[key] = NoApp THEN [ht EXCEPT ![key] = a] ELSE ht

\* Variant that unlinks whatever node is under the key.
lttng_ht_del_mut_bykey(ht, key, a) == [ht EXCEPT ![key] = NoApp]

\* lttng_ht_del with the iterator set on a's own node: unlinks that node
\* only; fails (table unchanged) when the node is no longer linked.
lttng_ht_del(ht, key, a) ==
    IF ht[key] = a THEN [ht EXCEPT ![key] = NoApp] ELSE ht

\* lttng_ht_lookup + lttng_ht_iter_get_node_ulong
find_app_by_sock(sock) == ust_app_ht_by_sock[sock]
ust_app_find_by_pid(pid) == ust_app_ht[pid]

\* close(2) on a descriptor number: closes whatever descriptor owns it now.
CloseFd(fds, s) == [fds EXCEPT ![s] = NoApp]

NoSess == [sid \in SessIds |-> "none"]

(***************************************************************************)
(* Initial state.                                                          *)
(***************************************************************************)
InitReg ==
    /\ apps = <<>>
    /\ ust_app_ht = [p \in Pids |-> NoApp]
    /\ ust_app_ht_by_sock = [s \in Socks |-> NoApp]
    /\ ust_consumerd32_fd \in {"fd", "EINVAL"}
    /\ ust_consumerd64_fd \in {"fd", "EINVAL"}
    /\ "fd" \in {ust_consumerd32_fd, ust_consumerd64_fd}
    /\ sockfd = [s \in Socks |-> NoApp]
    /\ fd_apps = 0
    /\ lpc = Idle
    /\ rdr = [r \in Readers |-> NoReader]
    /\ rcu_cbs = {}
    /\ chk = [assert_failed |-> FALSE, ebadf |-> FALSE]

ThreadIdle == [pc |-> "idle", chan |-> NoApp]

InitKey ==
    /\ next_channel_key = 0
    /\ ua_chans = <<>>
    /\ tpc = [t \in Threads |-> ThreadIdle]

\* No enable of an event is being followed.
NoPair == [phase |-> "none"]

InitEvt ==
    /\ events = {}
    /\ ev_ret = "none"
    /\ ev_glb = NoPair

\* A registry channel or event that does not exist.
NoUEvent == [present |-> FALSE, enabled |-> FALSE]
NoUEvents == [e \in SessEvents |-> NoUEvent]
\* ctx: the context of the model is in uchan->ctx.
NoUChan == [present |-> FALSE, enabled |-> FALSE, events |-> NoUEvents,
            ctx |-> FALSE]

\* An event or channel that is not in the shadow.
NoEvent == [present |-> FALSE, enabled |-> FALSE, obj |-> FALSE]
NoEvents == [e \in SessEvents |-> NoEvent]
\* ctx is the context of the model in ua_chan->ctx: present when a
\* ust_app_ctx of its kind is in the table, obj when ustctl_add_context gave
\* it an object.
NoChan == [present |-> FALSE, type |-> "PER_CPU", enabled |-> FALSE,
           is_sent |-> FALSE, obj |-> FALSE, streams |-> 0,
           expected_stream_count |-> 0, events |-> NoEvents,
           created |-> FALSE,
           ctx |-> [present |-> FALSE, obj |-> FALSE]]

\* An app without ust_app_session for the session.
NoUaSess ==
    [present |-> FALSE, handle |-> FALSE, started |-> FALSE,
     stopped |-> FALSE, metadata |-> NoChan,
     channels |-> [c \in ChanNames |-> NoChan]]

\* A session without channel, not started, and no app registered.  The
\* consumer of the session answers the same stream count for every channel.
InitSess ==
    /\ \E n \in 0..MaxStreams :
          usess = [channels |-> [c \in ChanNames |-> NoUChan],
                   start_trace |-> FALSE, consumer |-> [streams |-> n]]
    /\ uapps = [a \in TraceApps |->
                  [state |-> "none", compatible |-> FALSE,
                   sess |-> NoUaSess]]
    /\ op = [name |-> "none", app |-> NoApp, chan |-> "none", ret |-> "OK"]
    /\ calls = <<>>

\* A kernel session with a session id, a uid and a gid, a consumer output of
\* the given type and its channels.  metadata_stream_fd is -1 until the
\* metadata stream is opened.
KSession(enabled, type, metadata_stream_fd, channel_list) ==
    [consumer |-> [enabled |-> enabled, type |-> type],
     metadata_stream_fd |-> metadata_stream_fd,
     consumer_fds_sent |-> FALSE,
     channel_list |-> channel_list]

NoKOp == [name |-> "none", chan |-> 0, ret |-> "OK"]

\* A kernel session without channel whose consumer is not enabled yet, and
\* no message sent.
InitKern ==
    /\ ksess = KSession(FALSE, "LOCAL", -1, <<>>)
    /\ kop = NoKOp
    /\ kmsgs = <<>>

Init == InitReg /\ InitKey /\ InitEvt /\ InitSess /\ InitKern

(***************************************************************************)
(* ust_app_register                                                        *)
(***************************************************************************)
\* Variant without the check of the major.
RegisterInvalid_mut_nomajor(bits, major) ==
    \/ (bits = 64 /\ ust_consumerd64_fd = "EINVAL")
    \/ (bits = 32 /\ ust_consumerd32_fd = "EINVAL")

\* The bitness and major checks at the head of ust_app_register.
RegisterInvalid(bits, major) ==
    \/ (bits = 64 /\ ust_consumerd64_fd = "EINVAL")
    \/ (bits = 32 /\ ust_consumerd32_fd = "EINVAL")
    \/ major # LTTNG_UST_COMM_MAJOR

NewApp(pid, sock) ==
    [pid |-> pid, sock |-> sock, state |-> "registering",
     compatible |-> FALSE, version |-> 0, handshake |-> "none",
     sess |-> NoSess, closes |-> 0, puts |-> 0, closed_in |-> "none",
     displaced_by |-> NoApp]

\* What a refused registration does with the socket before returning
\* -EINVAL: close(sock) and lttng_fd_put(LTTNG_FD_APPS, 1).
RegisterReject == [closes |-> 1, puts |-> 1]

\* First part of ust_app_register, up to the insertion in the pid table.
\* The caller hands over a freshly accepted socket for which it reserved one
\* LTTNG_FD_APPS unit; oom is the outcome of zmalloc.
ust_app_register(pid, bits, major, sock, oom) ==
    /\ lpc.op = "idle"
    /\ sockfd[sock] = NoApp
    /\ LET n == Len(apps) + 1 IN
       IF RegisterInvalid(bits, major)
       THEN \* return -EINVAL
            /\ lpc' = [Idle EXCEPT !.op = "register_einval", !.sock = sock,
                                   !.bits = bits, !.major = major,
                                   !.closes = RegisterReject.closes,
                                   !.puts = RegisterReject.puts]
            /\ sockfd' = [sockfd EXCEPT ![sock] =
                             IF RegisterReject.closes = 0 THEN Leaked ELSE NoApp]
            /\ fd_apps' = fd_apps + 1 - RegisterReject.puts
            /\ UNCHANGED <<apps, ust_app_ht>>
       ELSE IF oom
       THEN \* zmalloc failed: return -ENOMEM, the socket is left as it is
            /\ lpc' = [Idle EXCEPT !.op = "register_enomem", !.sock = sock,
                                   !.bits = bits, !.major = major]
            /\ sockfd' = [sockfd EXCEPT ![sock] = Leaked]
            /\ fd_apps' = fd_apps + 1
            /\ UNCHANGED <<apps, ust_app_ht>>
       ELSE /\ n <= MaxRegs
            /\ apps' = LET old == ust_app_ht[pid]
                           new == NewApp(pid, sock)
                       IN  IF old = NoApp THEN Append(apps, new)
                           ELSE Append([apps EXCEPT ![old].displaced_by = n],
                                       new)
            /\ sockfd' = [sockfd EXCEPT ![sock] = n]
            /\ fd_apps' = fd_apps + 1
            /\ ust_app_ht' = lttng_ht_add_replace_ulong(ust_app_ht, pid, n)
            /\ lpc' = [Idle EXCEPT !.op = "register", !.app = n, !.sock = sock,
                                   !.bits = bits, !.major = major]
    /\ UNCHANGED <<ust_app_ht_by_sock, ust_consumerd32_fd, ust_consumerd64_fd,
                   rdr, rcu_cbs, chk, keyvars, evtvars, sessvars, kernvars>>

\* A call of the application management thread that ended early returns.
listener_return ==
    /\ lpc.op \in {"register_einval", "register_enomem", "unregister_miss"}
    /\ lpc' = Idle
    /\ UNCHANGED <<apps, ust_app_ht, ust_app_ht_by_sock, ust_consumerd32_fd,
                   ust_consumerd64_fd, sockfd, fd_apps, rdr, rcu_cbs, chk,
                   keyvars, evtvars, sessvars, kernvars>>

\* Second part: insertion in the socket table, return 0.
ust_app_register_add_sock ==
    /\ lpc.op = "register"
    /\ LET a == lpc.app
           s == apps[a].sock
       IN  /\ ust_app_ht_by_sock' =
                  lttng_ht_add_unique_ulong(ust_app_ht_by_sock, s, a)
           /\ chk' = IF ust_app_ht_by_sock[s] # NoApp
                     THEN [chk EXCEPT !.assert_failed = TRUE] ELSE chk
           /\ apps' = [apps EXCEPT ![a].state = "live"]
    /\ lpc' = Idle
    /\ UNCHANGED <<ust_app_ht, ust_consumerd32_fd, ust_consumerd64_fd, sockfd,
                   fd_apps, rdr, rcu_cbs, keyvars, evtvars, sessvars, kernvars>>

(***************************************************************************)
(* ust_app_validate_version                                                *)
(***************************************************************************)
\* Variant that does not compare the major.
VersionCompatible_mut_nocheck(ok, major) == ok

\* The compatible bit computed from the outcome of ustctl_tracer_version.
VersionCompatible(ok, major) == ok /\ major = UST_APP_MAJOR_VERSION

\* ok: ustctl_tracer_version returned >= 0 and filled app->version with
\* major; on failure app->version is left as it was.
ust_app_validate_version(sock, ok, major) ==
    /\ lpc.op = "idle"
    /\ find_app_by_sock(sock) # NoApp
    /\ LET a == find_app_by_sock(sock) IN
       apps' = [apps EXCEPT
                  ![a].version = IF ok THEN major ELSE @,
                  ![a].handshake = IF ok THEN "ok" ELSE "failed",
                  ![a].compatible = VersionCompatible(ok, major)]
    /\ UNCHANGED <<ust_app_ht, ust_app_ht_by_sock, ust_consumerd32_fd,
                   ust_consumerd64_fd, sockfd, fd_apps, lpc, rdr, rcu_cbs, chk,
                   keyvars, evtvars, sessvars, kernvars>>

(***************************************************************************)
(* ust_app_unregister, one step per index                                  *)
(***************************************************************************)
\* Lookup in the socket table and removal of the app from it.
ust_app_unregister(sock) ==
    /\ lpc.op = "idle"
    /\ LET lta == find_app_by_sock(sock) IN
       IF lta = NoApp
       THEN \* "Unable to find app by sock": nothing is done
            /\ lpc' = [Idle EXCEPT !.op = "unregister_miss", !.sock = sock]
            /\ UNCHANGED <<ust_app_ht_by_sock, apps>>
       ELSE /\ ust_app_ht_by_sock' = lttng_ht_del(ust_app_ht_by_sock, sock, lta)
            /\ apps' = [apps EXCEPT ![lta].state = "unregistering"]
            /\ lpc' = [Idle EXCEPT !.op = "unregister_pid", !.app = lta,
                                   !.sock = sock]
    /\ UNCHANGED <<ust_app_ht, ust_consumerd32_fd, ust_consumerd64_fd, sockfd,
                   fd_apps, rdr, rcu_cbs, chk, keyvars, evtvars, sessvars, kernvars>>

\* Variant that leaves the pid table alone.
ust_app_unregister_del_pid_mut_skip ==
    /\ lpc.op = "unregister_pid"
    /\ lpc' = [lpc EXCEPT !.op = "unregister_rcu"]
    /\ UNCHANGED <<apps, ust_app_ht, ust_app_ht_by_sock, ust_consumerd32_fd,
                   ust_consumerd64_fd, sockfd, fd_apps, rdr, rcu_cbs, chk,
                   keyvars, evtvars, sessvars, kernvars>>

\* Removal of the app's own node from the pid table; the return value is
\* ignored since a re-registration may have replaced the node already.
ust_app_unregister_del_pid ==
    /\ lpc.op = "unregister_pid"
    /\ ust_app_ht' = lttng_ht_del(ust_app_ht, apps[lpc.app].pid, lpc.app)
    /\ lpc' = [lpc EXCEPT !.op = "unregister_rcu"]
    /\ UNCHANGED <<apps, ust_app_ht_by_sock, ust_consumerd32_fd,
                   ust_consumerd64_fd, sockfd, fd_apps, rdr, rcu_cbs, chk,
                   keyvars, evtvars, sessvars, kernvars>>

\* The readers a callback queued now has to wait for: those inside a
\* read-side critical section.
RcuReaders == {r \in Readers : rdr[r].locked}

\* Sessions still in app->sessions are unlinked and put on teardown_head.
Teardown(ss) ==
    [sid \in SessIds |-> IF ss[sid] = "live" THEN "teardown" ELSE ss[sid]]

\* Body of delete_ust_app for app a, run from `where': teardown sessions
\* destroyed, socket closed, one LTTNG_FD_APPS unit released, app freed.
\* The close lands on whichever app owns the descriptor number by then.
\* A freed app keeps its counters only; its other fields are gone.
DeleteApp(as, a, fds, where) ==
    LET s == as[a].sock
        owner == fds[s]
        closed == IF owner \notin DOMAIN as THEN as
                  ELSE [as EXCEPT ![owner].closes = @ + 1,
                                  ![owner].closed_in = where]
    IN  [closed EXCEPT
           ![a].sess = [sid \in SessIds |->
                           IF @[sid] = "teardown" THEN "destroyed" ELSE @[sid]],
           ![a].puts = @ + 1,
           ![a].state = "freed",
           ![a].compatible = FALSE, ![a].version = 0,
           ![a].handshake = "none"]

\* Variant that deletes the app at once instead of queueing the callback.
ust_app_unregister_call_rcu_mut_sync ==
    /\ lpc.op = "unregister_rcu"
    /\ apps' = DeleteApp([apps EXCEPT ![lpc.app].sess = Teardown(@)],
                         lpc.app, sockfd, "ust_app_unregister")
    /\ chk' = IF sockfd[apps[lpc.app].sock] = NoApp
              THEN [chk EXCEPT !.ebadf = TRUE] ELSE chk
    /\ sockfd' = CloseFd(sockfd, apps[lpc.app].sock)
    /\ fd_apps' = fd_apps - 1
    /\ lpc' = Idle
    /\ UNCHANGED <<ust_app_ht, ust_app_ht_by_sock, ust_consumerd32_fd,
                   ust_consumerd64_fd, rdr, rcu_cbs, keyvars, evtvars, sessvars, kernvars>>

\* End of ust_app_unregister: the sessions are moved to the teardown list
\* and call_rcu(&lta->pid_n.head, delete_ust_app_rcu) queues the deletion.
ust_app_unregister_call_rcu ==
    /\ lpc.op = "unregister_rcu"
    /\ rcu_cbs' = rcu_cbs \cup {[app |-> lpc.app, wait |-> RcuReaders]}
    /\ apps' = [apps EXCEPT ![lpc.app].state = "unregistered",
                            ![lpc.app].sess = Teardown(@)]
    /\ lpc' = Idle
    /\ UNCHANGED <<ust_app_ht, ust_app_ht_by_sock, ust_consumerd32_fd,
                   ust_consumerd64_fd, sockfd, fd_apps, rdr, chk,
                   keyvars, evtvars, sessvars, kernvars>>

(***************************************************************************)
(* delete_ust_app_rcu / delete_ust_app: runs once every reader that was    *)
(* inside a read-side critical section at call_rcu time has left it.       *)
(***************************************************************************)
delete_ust_app(cb) ==
    /\ cb \in rcu_cbs
    /\ cb.wait = {}
    /\ apps[cb.app].state = "unregistered"
    /\ apps' = DeleteApp(apps, cb.app, sockfd, "delete_ust_app")
    /\ chk' = IF sockfd[apps[cb.app].sock] = NoApp
              THEN [chk EXCEPT !.ebadf = TRUE] ELSE chk
    /\ sockfd' = CloseFd(sockfd, apps[cb.app].sock)
    /\ fd_apps' = fd_apps - 1
    /\ rcu_cbs' = rcu_cbs \ {cb}
    /\ UNCHANGED <<ust_app_ht, ust_app_ht_by_sock, ust_consumerd32_fd,
                   ust_consumerd64_fd, lpc, rdr, keyvars, evtvars, sessvars, kernvars>>

(***************************************************************************)
(* Readers: command threads working under rcu_read_lock                    *)
(***************************************************************************)
rcu_read_lock(r) ==
    /\ ~rdr[r].locked
    /\ rdr' = [rdr EXCEPT ![r].locked = TRUE]
    /\ UNCHANGED <<apps, ust_app_ht, ust_app_ht_by_sock, ust_consumerd32_fd,
                   ust_consumerd64_fd, sockfd, fd_apps, lpc, rcu_cbs, chk,
                   keyvars, evtvars, sessvars, kernvars>>

\* Leaving the read-side critical section ends the wait of every callback
\* queued meanwhile; the reader drops the pointer it held.
rcu_read_unlock(r) ==
    /\ rdr[r].locked
    /\ rdr' = [rdr EXCEPT ![r] = NoReader]
    /\ rcu_cbs' = {[cb EXCEPT !.wait = @ \ {r}] : cb \in rcu_cbs}
    /\ UNCHANGED <<apps, ust_app_ht, ust_app_ht_by_sock, ust_consumerd32_fd,
                   ust_consumerd64_fd, sockfd, fd_apps, lpc, chk,
                   keyvars, evtvars, sessvars, kernvars>>

\* Lookup (or one step of an iteration) in the pid table.
reader_find_by_pid(r, pid) ==
    /\ rdr[r].locked
    /\ ust_app_find_by_pid(pid) # NoApp
    /\ rdr' = [rdr EXCEPT ![r].app = ust_app_find_by_pid(pid)]
    /\ UNCHANGED <<apps, ust_app_ht, ust_app_ht_by_sock, ust_consumerd32_fd,
                   ust_consumerd64_fd, sockfd, fd_apps, lpc, rcu_cbs, chk,
                   keyvars, evtvars, sessvars, kernvars>>

\* Lookup in the socket table.
reader_find_by_sock(r, sock) ==
    /\ rdr[r].locked
    /\ find_app_by_sock(sock) # NoApp
    /\ rdr' = [rdr EXCEPT ![r].app = find_app_by_sock(sock)]
    /\ UNCHANGED <<apps, ust_app_ht, ust_app_ht_by_sock, ust_consumerd32_fd,
                   ust_consumerd64_fd, sockfd, fd_apps, lpc, rcu_cbs, chk,
                   keyvars, evtvars, sessvars, kernvars>>

\* create_ust_app_session on the app the reader holds: a session that is
\* not in app->sessions yet is allocated, created on the tracer and added.
create_ust_app_session(r, sid) ==
    /\ rdr[r].locked
    /\ rdr[r].app # NoApp
    /\ LET a == rdr[r].app IN
       /\ apps[a].compatible
       /\ apps[a].state # "freed"
       /\ apps[a].sess[sid] = "none"
       /\ apps' = [apps EXCEPT ![a].sess[sid] = "live"]
    /\ UNCHANGED <<ust_app_ht, ust_app_ht_by_sock, ust_consumerd32_fd,
                   ust_consumerd64_fd, sockfd, fd_apps, lpc, rdr, rcu_cbs, chk,
                   keyvars, evtvars, sessvars, kernvars>>

\* lookup_session_by_app on the app the reader holds: the reader obtains
\* the ust_app_session found in app->sessions.
lookup_session_by_app(r, sid) ==
    /\ rdr[r].locked
    /\ rdr[r].app # NoApp
    /\ apps[rdr[r].app].sess[sid] = "live"
    /\ rdr' = [rdr EXCEPT ![r].ua_sess = [app |-> rdr[r].app, sid |-> sid]]
    /\ UNCHANGED <<apps, ust_app_ht, ust_app_ht_by_sock, ust_consumerd32_fd,
                   ust_consumerd64_fd, sockfd, fd_apps, lpc, rcu_cbs, chk,
                   keyvars, evtvars, sessvars, kernvars>>

\* Variant that leaves the freeing of the session to delete_ust_app.
destroy_session_mut_defer(ss, sid) ==
    IF ss[sid] = "live" THEN [ss EXCEPT ![sid] = "teardown"] ELSE ss

\* destroy_session(app, ua_sess): lttng_ht_del on app->sessions and, when
\* the node was still linked, delete_ust_app_session at once, which ends
\* with free(ua_sess).
destroy_session(ss, sid) ==
    IF ss[sid] = "live" THEN [ss EXCEPT ![sid] = "destroyed"] ELSE ss

\* destroy_trace(usess, app) by the thread that holds the app, and likewise
\* the error paths of ust_app_create_channel_glb and ust_app_global_update:
\* the session found in app->sessions is handed to destroy_session inside
\* the thread's own read-side critical section.
destroy_trace(r, sid) ==
    /\ rdr[r].locked
    /\ rdr[r].app # NoApp
    /\ apps[rdr[r].app].compatible
    /\ apps[rdr[r].app].sess[sid] = "live"
    /\ apps' = [apps EXCEPT ![rdr[r].app].sess = destroy_session(@, sid)]
    /\ rdr' = [rdr EXCEPT ![r].ua_sess = NoUaSessPtr]
    /\ UNCHANGED <<ust_app_ht, ust_app_ht_by_sock, ust_consumerd32_fd,
                   ust_consumerd64_fd, sockfd, fd_apps, lpc, rcu_cbs, chk,
                   keyvars, evtvars, sessvars, kernvars>>

\* One step of cds_lfht_for_each_entry over lta->sessions in
\* ust_app_unregister, inside its read-side critical section: the iterator
\* stands on a session that is linked in the table.
ust_app_unregister_iter(sid) ==
    /\ lpc.op = "unregister_rcu"
    /\ apps[lpc.app].sess[sid] = "live"
    /\ lpc' = [lpc EXCEPT !.op = "unregister_sess", !.ua_sess = sid]
    /\ UNCHANGED <<apps, ust_app_ht, ust_app_ht_by_sock, ust_consumerd32_fd,
                   ust_consumerd64_fd, sockfd, fd_apps, rdr, rcu_cbs, chk,
                   keyvars, evtvars, sessvars, kernvars>>

\* lttng_ht_del(lta->sessions, &iter) on that session: a linked session is
\* unlinked and put on teardown_head, one that was unlinked meanwhile is
\* skipped.  When the session was freed meanwhile the call reads freed
\* memory and either outcome is possible.
ust_app_unregister_del_session(linked) ==
    /\ lpc.op = "unregister_sess"
    /\ \E st \in {apps[lpc.app].sess[lpc.ua_sess]} :
          /\ st = "live" => linked
          /\ st \notin {"live", "destroyed"} => ~linked
          /\ apps' = IF linked
                     THEN [apps EXCEPT ![lpc.app].sess[lpc.ua_sess] =
                                           "teardown"]
                     ELSE apps
    /\ lpc' = [lpc EXCEPT !.op = "unregister_rcu", !.ua_sess = NoApp]
    /\ UNCHANGED <<ust_app_ht, ust_app_ht_by_sock, ust_consumerd32_fd,
                   ust_consumerd64_fd, sockfd, fd_apps, rdr, rcu_cbs, chk,
                   keyvars, evtvars, sessvars, kernvars>>

\* Steps of the application management thread that every registry
\* specification shares.
ListenerNext ==
    \/ ust_app_register_add_sock
    \/ listener_return
    \/ \E sock \in Socks : ust_app_unregister(sock)
    \/ ust_app_unregister_del_pid
    \/ ust_app_unregister_call_rcu

ReaderNext ==
    \/ \E r \in Readers : rcu_read_lock(r)
    \/ \E r \in Readers : rcu_read_unlock(r)
    \/ \E r \in Readers, pid \in Pids : reader_find_by_pid(r, pid)
    \/ \E r \in Readers, sock \in Socks : reader_find_by_sock(r, sock)

\* Registry: every outcome of ust_app_register, unregistration, deferred
\* deletion and concurrent lookups.
Next ==
    \/ \E pid \in Pids, bits \in Bits, major \in Majors, sock \in Socks,
          oom \in BOOLEAN : ust_app_register(pid, bits, major, sock, oom)
    \/ ListenerNext
    \/ \E cb \in rcu_cbs : delete_ust_app(cb)
    \/ ReaderNext

Spec == Init /\ [][Next]_vars

\* Lifecycle of the registered apps: accepted registrations, version
\* handshake, sessions created by readers, unregistration and deletion.
InitLife ==
    /\ Init
    /\ ust_consumerd32_fd = "fd"
    /\ ust_consumerd64_fd = "fd"

NextLife ==
    \/ \E pid \in Pids, bits \in Bits, sock \in Socks :
          ust_app_register(pid, bits, LTTNG_UST_COMM_MAJOR, sock, FALSE)
    \/ \E sock \in Socks, ok \in BOOLEAN, major \in TracerMajors :
          ust_app_validate_version(sock, ok, major)
    \/ ListenerNext
    \/ \E cb \in rcu_cbs : delete_ust_app(cb)
    \/ ReaderNext
    \/ \E r \in Readers, sid \in SessIds : create_ust_app_session(r, sid)

SpecLife == InitLife /\ [][NextLife]_vars

\* SpecRcu: the sessions of the apps of one process, looked up by a command
\* thread, destroyed by it, and torn down by ust_app_unregister one
\* iteration step at a time.
NextRcu ==
    \/ \E sock \in Socks :
          ust_app_register(100, 64, LTTNG_UST_COMM_MAJOR, sock, FALSE)
    \/ \E sock \in Socks :
          ust_app_validate_version(sock, TRUE, UST_APP_MAJOR_VERSION)
    \/ ListenerNext
    \/ \E sid \in SessIds : ust_app_unregister_iter(sid)
    \/ \E linked \in BOOLEAN : ust_app_unregister_del_session(linked)
    \/ \E cb \in rcu_cbs : delete_ust_app(cb)
    \/ ReaderNext
    \/ \E r \in Readers, sid \in SessIds : create_ust_app_session(r, sid)
    \/ \E r \in Readers, sid \in SessIds : lookup_session_by_app(r, sid)
    \/ \E r \in Readers, sid \in SessIds : destroy_trace(r, sid)

SpecRcu == InitLife /\ [][NextRcu]_vars

(***************************************************************************)
(* Channel keys: alloc_ust_app_channel and its callers                     *)
(***************************************************************************)
\* Variant that reads the counter without incrementing it.
get_next_channel_key_mut_read(v) == v

\* uatomic_add_return(&next_channel_key, 1): the counter after one atomic
\* increment, which is also the value returned.  The counter is an unsigned
\* long; the model stays far below its wrap-around.
get_next_channel_key(v) == v + 1

\* alloc_ust_app_channel called by thread t from create_ust_app_channel or
\* shadow_copy_session (PER_CPU) or create_ust_app_metadata (METADATA).
\* ua_chans records the channels in the order of their key draws.
alloc_ust_app_channel(t, type, oom) ==
    /\ tpc[t].pc = "idle"
    /\ Len(ua_chans) < MaxChans
    /\ IF oom
       THEN \* zmalloc failed: NULL is returned, no key is drawn
            /\ tpc' = [tpc EXCEPT ![t].pc = "enomem"]
            /\ UNCHANGED <<next_channel_key, ua_chans>>
       ELSE LET key == get_next_channel_key(next_channel_key) IN
            /\ next_channel_key' = key
            /\ ua_chans' = Append(ua_chans, [key |-> key, type |-> type,
                                             by |-> t, state |-> "allocated"])
            /\ tpc' = [tpc EXCEPT ![t] = [pc |-> "allocated",
                                          chan |-> Len(ua_chans) + 1]]
    /\ UNCHANGED <<regvars, evtvars, sessvars, kernvars>>

\* The caller returns -ENOMEM.
alloc_enomem_return(t) ==
    /\ tpc[t].pc = "enomem"
    /\ tpc' = [tpc EXCEPT ![t] = ThreadIdle]
    /\ UNCHANGED <<regvars, next_channel_key, ua_chans, evtvars, sessvars, kernvars>>

\* create_ust_channel on the channel just allocated: on success the caller
\* adds it to the session, on failure it deletes it.
create_ust_channel(t, ok) ==
    /\ tpc[t].pc = "allocated"
    /\ ua_chans' = [ua_chans EXCEPT ![tpc[t].chan].state =
                       IF ok THEN "added" ELSE "freed"]
    /\ tpc' = [tpc EXCEPT ![t] = ThreadIdle]
    /\ UNCHANGED <<regvars, next_channel_key, evtvars, sessvars, kernvars>>

\* delete_ust_app_channel on a channel of a session that is deleted.
delete_ust_app_channel(i) ==
    /\ i \in DOMAIN ua_chans
    /\ ua_chans[i].state = "added"
    /\ ua_chans' = [ua_chans EXCEPT ![i].state = "freed"]
    /\ UNCHANGED <<regvars, next_channel_key, tpc, evtvars, sessvars, kernvars>>

NextKey ==
    \/ \E t \in Threads, type \in ChanTypes, oom \in BOOLEAN :
          alloc_ust_app_channel(t, type, oom)
    \/ \E t \in Threads : alloc_enomem_return(t)
    \/ \E t \in Threads, ok \in BOOLEAN : create_ust_channel(t, ok)
    \/ \E i \in 1..MaxChans : delete_ust_app_channel(i)

SpecKey == Init /\ [][NextKey]_vars

(***************************************************************************)
(* Events of one ust_app_channel                                           *)
(***************************************************************************)
\* ht_match_ust_app_event(node, key): name, then loglevel, then filter.
ht_match_ust_app_event(event, key) ==
    /\ event.name = key.name
    /\ event.loglevel # key.loglevel =>
          /\ event.loglevel_type = "ALL"
          /\ key.loglevel = 0
          /\ event.loglevel = -1
    /\ key.filter.present <=> event.filter.present
    /\ key.filter.present /\ event.filter.present =>
          /\ Len(event.filter.data) = Len(key.filter.data)
          /\ event.filter.data = key.filter.data

\* find_ust_app_event: the events of ht the key matches (none: NULL).
find_ust_app_event(ht, name, filter, loglevel) ==
    {e \in ht : ht_match_ust_app_event(e,
                    [name |-> name, filter |-> filter, loglevel |-> loglevel])}

\* alloc_ust_app_event + shadow_copy_event: the attributes are copied as
\* they are; the filter copy is NULL when its allocation fails.
shadow_copy_event(uevent, foom) ==
    [name |-> uevent.name, loglevel_type |-> uevent.loglevel_type,
     loglevel |-> uevent.loglevel,
     filter |-> IF foom THEN NoFilter ELSE uevent.filter,
     enabled |-> uevent.enabled]

\* Variant that inserts the event without looking it up first.
CreateEventHt_mut_nolookup(ht, uevent, oom, foom, ust_ok) ==
    [ret |-> "OK", events |-> ht \cup {shadow_copy_event(uevent, FALSE)},
     ustctl |-> 1]

\* create_ust_app_event on the events table ht: the return code, the table
\* it leaves and the number of calls made to the tracer.  oom and foom are
\* the outcomes of the allocations, ust_ok the outcome of create_ust_event.
CreateEventHt(ht, uevent, oom, foom, ust_ok) ==
    IF find_ust_app_event(ht, uevent.name, uevent.filter, uevent.loglevel) # {}
    THEN [ret |-> "EEXIST", events |-> ht, ustctl |-> 0]
    ELSE IF oom
    THEN [ret |-> "ENOMEM", events |-> ht, ustctl |-> 0]
    ELSE LET ua_event == shadow_copy_event(uevent, foom) IN
         IF ~ust_ok
         THEN \* delete_ust_app_event(-1, ua_event)
              [ret |-> "UST_ERR", events |-> ht, ustctl |-> 1]
         ELSE \* add_unique_ust_app_event, with the event's own key
              IF find_ust_app_event(ht, ua_event.name, ua_event.filter,
                                    ua_event.loglevel) # {}
              THEN [ret |-> "ASSERT", events |-> ht, ustctl |-> 1]
              ELSE [ret |-> "OK", events |-> ht \cup {ua_event}, ustctl |-> 1]

\* create_ust_app_event for uevent on the channel; the table holds at most
\* MaxEvents events.
create_ust_app_event(uevent, oom, foom, ust_ok) ==
    /\ \E r \in {CreateEventHt(events, uevent, oom, foom, ust_ok)} :
          /\ r.ret = "OK" => Cardinality(events) < MaxEvents
          /\ ev_ret' = r.ret
          /\ events' = r.events
    /\ UNCHANGED <<regvars, keyvars, sessvars, kernvars>>

\* The table with the enabled flag of ua_event set to v.
SetEnabled(ht, ua_event, v) ==
    (ht \ {ua_event}) \cup {[ua_event EXCEPT !.enabled = v]}

\* The tables the body of the loop of ust_app_enable_event_glb can leave
\* when ustctl_enable succeeds: the event is searched with
\* find_ust_app_event, which returns the first node that matches the key;
\* no match leaves the table as it is.
EnableResults(ht, uevent) ==
    IF find_ust_app_event(ht, uevent.name, uevent.filter, uevent.loglevel) = {}
    THEN {ht}
    ELSE {SetEnabled(ht, e, TRUE) :
             e \in find_ust_app_event(ht, uevent.name, uevent.filter,
                                      uevent.loglevel)}

\* lttng_ht_lookup(ua_chan->events, (void *) uevent->attr.name, &iter): the
\* nodes the string lookup can return, those hashed under that name.
LookupByName(ht, name) == {e \in ht : e.name = name}

\* The tables the body of the loop of ust_app_disable_event_glb, and
\* ust_app_disable_event_pid, can leave when ustctl_disable succeeds.
DisableResults_mut_all(ht, uevent) ==
    IF LookupByName(ht, uevent.name) = {}
    THEN {ht}
    ELSE {{[e EXCEPT !.enabled = FALSE] : e \in ht}}

DisableResults(ht, uevent) ==
    IF LookupByName(ht, uevent.name) = {}
    THEN {ht}
    ELSE {SetEnabled(ht, e, FALSE) : e \in LookupByName(ht, uevent.name)}

\* ust_app_enable_event_glb for uevent, on the channel of one app.
enable_event(uevent, ok) ==
    /\ IF ok
       THEN /\ events' \in EnableResults(events, uevent)
            /\ ev_ret' = "OK"
       ELSE /\ events' = events
            /\ ev_ret' = IF EnableResults(events, uevent) = {events}
                         THEN "OK" ELSE "UST_ERR"
    /\ UNCHANGED <<regvars, keyvars, sessvars, kernvars>>

\* ust_app_disable_event_glb for uevent, on the channel of one app.
disable_event(uevent, ok) ==
    /\ IF ok
       THEN /\ events' \in DisableResults(events, uevent)
            /\ ev_ret' = "OK"
       ELSE /\ events' = events
            /\ ev_ret' = IF LookupByName(events, uevent.name) = {}
                         THEN "OK" ELSE "UST_ERR"
    /\ UNCHANGED <<regvars, keyvars, sessvars, kernvars>>

\* delete_ust_app_channel wipes the events of the channel.
wipe_events ==
    /\ events # {}
    /\ events' = {}
    /\ ev_ret' = "none"
    /\ UNCHANGED <<regvars, keyvars, sessvars, kernvars>>

\* The events of the registry channel: they are created enabled.
UEvents ==
    {[name |-> n, loglevel_type |-> l.type, loglevel |-> l.value, filter |-> f,
      enabled |-> TRUE] :
        n \in EventNames, l \in Loglevels, f \in Filters}

NextEvt ==
    \/ \E uevent \in UEvents, oom, foom, ust_ok \in BOOLEAN :
          create_ust_app_event(uevent, oom, foom, ust_ok) /\ UNCHANGED ev_glb
    \/ wipe_events /\ UNCHANGED ev_glb

SpecEvt == Init /\ [][NextEvt]_vars

\* SpecEvKey: the events of one name on the channel of one app, created,
\* enabled and disabled with every loglevel and filter; the filters differ
\* by their presence, their length or their bytes.
NamedUEvents ==
    {u \in UEvents : u.name = "ev_a"}
        \cup {[name |-> "ev_a", loglevel_type |-> "SINGLE", loglevel |-> 5,
               filter |-> [present |-> TRUE, data |-> <<2>>],
               enabled |-> TRUE]}

NextEvKey ==
    \/ \E uevent \in NamedUEvents, ust_ok \in BOOLEAN :
          create_ust_app_event(uevent, FALSE, FALSE, ust_ok)
              /\ UNCHANGED ev_glb
    \/ \E uevent \in NamedUEvents, ok \in BOOLEAN :
          enable_event(uevent, ok) /\ UNCHANGED ev_glb
    \/ \E uevent \in NamedUEvents, ok \in BOOLEAN :
          disable_event(uevent, ok) /\ UNCHANGED ev_glb
    \/ wipe_events /\ UNCHANGED ev_glb

SpecEvKey == Init /\ [][NextEvKey]_vars

\* SpecPair: the events of one channel of one app, of two names, with the
\* last ust_app_enable_event_glb followed: ev_glb holds its uevent and the
\* table it found, and tells whether ust_app_disable_event_glb for the same
\* uevent came right after it.  The tracer fails no enable or disable that
\* is followed.
PairUEvents ==
    {u \in UEvents :
        /\ u.loglevel_type = "ALL" /\ u.loglevel = -1
        /\ u.filter.data \in {<<>>, <<1>>}
        /\ u.name = "ev_b" => ~u.filter.present}

pair_create_event(uevent) ==
    /\ create_ust_app_event(uevent, FALSE, FALSE, TRUE)
    /\ ev_glb' = NoPair

pair_enable_event(uevent, ok) ==
    /\ enable_event(uevent, ok)
    /\ ev_glb' = IF ok
                 THEN [phase |-> "enabled", uevent |-> uevent,
                       before |-> events]
                 ELSE NoPair

pair_disable_event(uevent, ok) ==
    /\ disable_event(uevent, ok)
    /\ ev_glb' = IF ok /\ ev_glb.phase = "enabled" /\ ev_glb.uevent = uevent
                 THEN [ev_glb EXCEPT !.phase = "disabled"]
                 ELSE NoPair

NextPair ==
    \/ \E uevent \in PairUEvents : pair_create_event(uevent)
    \/ \E uevent \in PairUEvents, ok \in BOOLEAN :
          pair_enable_event(uevent, ok)
    \/ \E uevent \in PairUEvents, ok \in BOOLEAN :
          pair_disable_event(uevent, ok)

SpecPair == Init /\ [][NextPair]_vars

(***************************************************************************)
(* Per-application shadow of one UST session: channels, streams, events,   *)
(* metadata, and the calls made to the tracer, the consumer and the fd     *)
(* accounting.  The operators named in CamelCase compute the effect of the *)
(* static function of the same name on one application's shadow; they      *)
(* return the new shadow, the return code and the calls made, in order.    *)
(* Return codes are named after the errno or UST error they stand for;     *)
(* "OK" is 0 and "ERR" any other negative value.                           *)
(***************************************************************************)
\* The channel as allocated by alloc_ust_app_channel and shadow_copy_channel:
\* not sent, no object, no stream.  created records that the tracer accepted
\* the channel (ust_consumer_send_channel_to_ust returned 0).
NewChan(type, enabled, evs) ==
    [present |-> TRUE, type |-> type, enabled |-> enabled, is_sent |-> FALSE,
     obj |-> FALSE, streams |-> 0, expected_stream_count |-> 0,
     events |-> evs, created |-> FALSE,
     ctx |-> [present |-> FALSE, obj |-> FALSE]]

\* F applied to the value of e, computed once.
With(e, F(_)) == CHOOSE y \in {F(x) : x \in {e}} : TRUE

\* One call to the tracer (ustctl_*), the consumer (ust_consumer_*) or the
\* fd accounting (lttng_fd_get, lttng_fd_put) made for app a.
\* obj names the channel or event concerned, n is the count the call carries
\* (streams announced, fd units) and ret its return code.  The return of
\* create_ust_channel is logged in the same way, as "return".  sock is the
\* socket the call is given: that of the app unless said otherwise.
Call(name, a, obj, n, ret) ==
    [call |-> name, app |-> a, obj |-> obj, ev |-> "none", n |-> n,
     ret |-> ret, sock |-> a]

\* The socket argument -1 of the delete_ust_app_* functions.
NoSock == -1

\* The calls that release an object or a handle of the tracer.
Releases ==
    {"release_object", "release_stream", "release_handle", "release_context"}

\* The log of a delete_ust_app_* function called with socket sock: its
\* ustctl_release_object and ustctl_release_handle get that socket.
OnSock(log, sock) ==
    [i \in 1..Len(log) |->
        IF log[i].call \in Releases THEN [log[i] EXCEPT !.sock = sock]
        ELSE log[i]]

\* Variant that hands the socket of the app to every deletion.
ErrorSock_mut_always(a, ch) == a

\* ua_chan->is_sent ? app->sock : -1
ErrorSock(a, ch) == IF ch.is_sent THEN a ELSE NoSock

\* Outcomes of the calls made by create_ust_channel when the consumer
\* answers n streams: the step that fails if any, the code it returns, and
\* the number of streams sent before a failing
\* ust_consumer_send_stream_to_ust.
ChanOutcomes(n) ==
    {[fail |-> "none", err |-> "OK", n |-> n, k |-> n]}
    \cup {[fail |-> f, err |-> "ERR", n |-> 0, k |-> 0] : f \in {"socket", "ask"}}
    \cup {[fail |-> f, err |-> "ERR", n |-> n, k |-> 0] : f \in {"fd_get", "get"}}
    \cup {[fail |-> f, err |-> e, n |-> n, k |-> n] :
             f \in {"send_chan", "disable"}, e \in UstErrs}
    \cup {[fail |-> "send_stream", err |-> e, n |-> n, k |-> k] :
             e \in UstErrs, k \in 0..(n - 1)}

\* Variant of the stream loop that keeps the streams it has sent.
send_streams_mut_keep(streams, k) == streams

\* The stream loop of create_ust_channel: each stream sent is unlinked from
\* the list and deleted; k streams were sent.
send_streams(streams, k) == streams - k

\* delete_ust_app_stream on a stream that has its object: the object is
\* released (ustctl_release_object, logged as "release_stream") and the two
\* units of the stream are given back.
DeleteUstAppStream(a, name) ==
    <<Call("release_stream", a, name, 0, "OK"),
      Call("fd_put", a, name, 2, "OK")>>

\* k times ust_consumer_send_stream_to_ust followed by
\* delete_ust_app_stream(-1, stream).
RECURSIVE SendStreams(_, _, _)
SendStreams(a, name, k) ==
    IF k = 0 THEN <<>>
    ELSE <<Call("send_stream", a, name, 0, "OK")>>
         \o OnSock(DeleteUstAppStream(a, name), NoSock)
         \o SendStreams(a, name, k - 1)

\* Variant that reserves one unit per stream.
nb_fd_mut_one(expected_stream_count) == expected_stream_count

\* nb_fd = DEFAULT_UST_STREAM_FD_NUM * ua_chan->expected_stream_count
nb_fd(expected_stream_count) ==
    DEFAULT_UST_STREAM_FD_NUM * expected_stream_count

\* create_ust_channel(app, ua_sess, ua_chan, consumer) under outcome o.
CreateUstChannel(a, name, ch, o) ==
    LET asked == [ch EXCEPT !.expected_stream_count = o.n]
        nb == nb_fd(asked.expected_stream_count)
        \* ust_consumer_get_channel sets the object and fills the stream list
        got == [asked EXCEPT !.obj = TRUE, !.streams = @ + o.n]
        sent == [got EXCEPT !.created = TRUE,
                            !.streams = send_streams(@, o.k)]
        done == [sent EXCEPT !.is_sent = TRUE]
        R(r) == <<Call("return", a, name, 0, r)>>
        c_ask(r) == <<Call("ask_channel", a, name, o.n, r)>>
        c_get(r) == c_ask("OK") \o <<Call("fd_get", a, name, nb, r)>>
        c_got(r) == c_get("OK") \o <<Call("get_channel", a, name, 0, r)>>
        c_chan(r) == c_got("OK") \o <<Call("create_channel", a, name, 0, r)>>
        c_sent == c_chan("OK") \o SendStreams(a, name, o.k)
        c_destroy == <<Call("destroy_channel", a, name, 0, "OK")>>
    IN
    IF o.fail = "socket"
    THEN [ret |-> "ERR", chan |-> ch, calls |-> R("ERR")]
    ELSE IF o.fail = "ask"
    THEN [ret |-> "ERR", chan |-> ch, calls |-> c_ask("ERR") \o R("ERR")]
    ELSE IF o.fail = "fd_get"
    THEN [ret |-> "ERR", chan |-> asked,
          calls |-> c_get("ERR") \o c_destroy \o R("ERR")]
    ELSE IF o.fail = "get"
    THEN [ret |-> "ERR", chan |-> asked,
          calls |-> c_got("ERR") \o <<Call("fd_put", a, name, nb, "OK")>>
                    \o c_destroy \o R("ERR")]
    ELSE IF o.fail = "send_chan"
    THEN [ret |-> o.err, chan |-> got, calls |-> c_chan(o.err) \o R(o.err)]
    ELSE IF o.fail = "send_stream"
    THEN [ret |-> o.err, chan |-> sent,
          calls |-> c_sent \o <<Call("send_stream", a, name, 0, o.err)>>
                    \o R(o.err)]
    ELSE IF ch.enabled
    THEN [ret |-> "OK", chan |-> done, calls |-> c_sent \o R("OK")]
    ELSE \* the channel is sent, then disabled on the tracer
         LET r == IF o.fail = "disable" THEN o.err ELSE "OK" IN
         [ret |-> r, chan |-> done,
          calls |-> c_sent \o <<Call("disable", a, name, 0, r)>> \o R(r)]

RECURSIVE DeleteStreams(_, _, _)
DeleteStreams(a, name, k) ==
    IF k = 0 THEN <<>>
    ELSE DeleteUstAppStream(a, name) \o DeleteStreams(a, name, k - 1)

\* delete_ust_app_event for every event of the channel that has an object.
RECURSIVE DeleteEvents(_, _, _)
DeleteEvents(a, evs, todo) ==
    IF todo = {} THEN <<>>
    ELSE LET e == CHOOSE x \in todo : TRUE IN
         (IF evs[e].present /\ evs[e].obj
          THEN <<Call("release_object", a, e, 0, "OK")>> ELSE <<>>)
         \o DeleteEvents(a, evs, todo \ {e})

\* delete_ust_app_channel: the streams left in the list are deleted, then
\* the context (delete_ust_app_ctx releases its object if it has one), then
\* the events, then the channel object with two units given back.
DeleteUstAppChannel(a, name, ch) ==
    DeleteStreams(a, name, ch.streams)
    \o (IF ch.ctx.present /\ ch.ctx.obj
        THEN <<Call("release_context", a, name, 0, "OK")>> ELSE <<>>)
    \o DeleteEvents(a, ch.events, SessEvents)
    \o (IF ch.obj
        THEN <<Call("release_object", a, name, 0, "OK"),
               Call("fd_put", a, name, 2, "OK")>>
        ELSE <<>>)

\* shadow_copy_channel: the enabled flag, the context and the events of
\* the registry channel; the context and the events copied have no object
\* on the tracer.
ShadowCopyChannel(uchan) ==
    [NewChan("PER_CPU", uchan.enabled,
            [e \in SessEvents |->
                IF uchan.events[e].present
                THEN [present |-> TRUE, enabled |-> uchan.events[e].enabled,
                      obj |-> FALSE]
                ELSE NoEvent])
     EXCEPT !.ctx = [present |-> uchan.ctx, obj |-> FALSE]]

\* Variant of shadow_copy_session without the lookup in ua_sess->channels.
shadow_copy_session_mut_nolookup(ua_sess, us, oom) ==
    [ua_sess EXCEPT
        !.channels = [c \in ChanNames |->
                         IF us.channels[c].present /\ c \notin oom
                         THEN ShadowCopyChannel(us.channels[c])
                         ELSE ua_sess.channels[c]]]

\* shadow_copy_session(ua_sess, usess, app): a channel of the global domain
\* that ua_sess->channels has is skipped; the others are allocated, copied
\* and added, but for those whose alloc_ust_app_channel fails (oom), which
\* are skipped as well.
shadow_copy_session(ua_sess, us, oom) ==
    [ua_sess EXCEPT
        !.channels = [c \in ChanNames |->
                         IF /\ us.channels[c].present
                            /\ ~ua_sess.channels[c].present
                            /\ c \notin oom
                         THEN ShadowCopyChannel(us.channels[c])
                         ELSE ua_sess.channels[c]]]

\* alloc_ust_app_session followed by shadow_copy_session: every channel of
\* the global domain is copied into ua_sess->channels.  handle is -1 and
\* started is 0.  stopped records that ustctl_stop_session was called.
ShadowCopySession(us) == shadow_copy_session(NoUaSess, us, {})

RECURSIVE DeleteChannels(_, _, _)
DeleteChannels(a, chans, todo) ==
    IF todo = {} THEN <<>>
    ELSE LET c == CHOOSE x \in todo : TRUE IN
         (IF chans[c].present
          THEN DeleteUstAppChannel(a, c, chans[c]) ELSE <<>>)
         \o DeleteChannels(a, chans, todo \ {c})

\* Variant of delete_ust_app_session that releases the handle first.
DeleteUstAppSession_mut_handle(a, sess) ==
    (IF sess.handle
     THEN <<Call("release_handle", a, "session", 0, "OK")>> ELSE <<>>)
    \o (IF sess.metadata.present
        THEN DeleteUstAppChannel(a, "metadata", sess.metadata) ELSE <<>>)
    \o DeleteChannels(a, sess.channels, ChanNames)

\* delete_ust_app_session: the metadata channel, the channels, the handle.
DeleteUstAppSession(a, sess) ==
    (IF sess.metadata.present
     THEN DeleteUstAppChannel(a, "metadata", sess.metadata) ELSE <<>>)
    \o DeleteChannels(a, sess.channels, ChanNames)
    \o (IF sess.handle
        THEN <<Call("release_handle", a, "session", 0, "OK")>> ELSE <<>>)

\* Outcomes of create_ust_app_session: "alloc" is a failed
\* alloc_ust_app_session, the others are what ustctl_create_session returns.
SessOutcomes == {"OK", "alloc", "ENOMEM"} \cup UstErrs

\* create_ust_app_session(usess, app, &ua_sess, &created) on the session
\* sess of app a.  A session found in app->sessions has its handle.
CreateUstAppSession(a, us, sess, o) ==
    IF sess.present
    THEN [ret |-> "OK", sess |-> sess, created |-> FALSE, calls |-> <<>>]
    ELSE IF o = "alloc"
    THEN [ret |-> "ENOMEM", sess |-> sess, created |-> FALSE, calls |-> <<>>]
    ELSE With(ShadowCopySession(us), LAMBDA ua :
         LET c == <<Call("create_session", a, "session", 0, o)>> IN
         IF o # "OK"
         THEN [ret |-> IF o = "ENOMEM" THEN "ENOMEM" ELSE "ENOTCONN",
               sess |-> NoUaSess, created |-> FALSE,
               calls |-> c \o OnSock(DeleteUstAppSession(a, ua), NoSock)]
         ELSE [ret |-> "OK",
               sess |-> [ua EXCEPT !.present = TRUE, !.handle = TRUE],
               created |-> TRUE, calls |-> c])

\* destroy_session(app, ua_sess): the session leaves app->sessions and is
\* deleted.
DestroySession(a, sess) ==
    [sess |-> NoUaSess, calls |-> DeleteUstAppSession(a, sess)]

\* Outcomes of create_ust_app_channel: a failed alloc_ust_app_channel, or
\* the outcome of create_ust_channel.
AppChanOutcomes(n) ==
    {[fail |-> "alloc", err |-> "ENOMEM", n |-> 0, k |-> 0]}
    \cup ChanOutcomes(n)

\* create_ust_app_channel(ua_sess, uchan, app, consumer, type, NULL).  On
\* a failed allocation the error path reads ua_chan->is_sent through the
\* NULL pointer: the process faults ("SIGSEGV").
CreateUstAppChannel(a, sess, name, uchan, o) ==
    IF sess.channels[name].present
    THEN [ret |-> "OK", sess |-> sess, calls |-> <<>>]
    ELSE IF o.fail = "alloc"
    THEN [ret |-> "SIGSEGV", sess |-> sess, calls |-> <<>>]
    ELSE With(CreateUstChannel(a, name, ShadowCopyChannel(uchan), o),
              LAMBDA r :
         IF r.ret # "OK"
         THEN [ret |-> r.ret, sess |-> sess,
               calls |-> r.calls
                         \o OnSock(DeleteUstAppChannel(a, name, r.chan),
                                   ErrorSock(a, r.chan))]
         ELSE [ret |-> "OK",
               sess |-> [sess EXCEPT !.channels[name] = r.chan],
               calls |-> r.calls])

\* create_ust_app_metadata(ua_sess, app, consumer).
CreateUstAppMetadata_mut_again(a, sess, o) ==
    IF o.fail = "alloc"
    THEN [ret |-> "ENOMEM", sess |-> sess, calls |-> <<>>]
    ELSE With(CreateUstChannel(a, "metadata",
                               NewChan("METADATA", TRUE, NoEvents), o),
              LAMBDA r :
         IF r.ret # "OK"
         THEN [ret |-> r.ret, sess |-> sess,
               calls |-> r.calls
                         \o OnSock(DeleteUstAppChannel(a, "metadata", r.chan),
                                   ErrorSock(a, r.chan))]
         ELSE [ret |-> "OK", sess |-> [sess EXCEPT !.metadata = r.chan],
               calls |-> r.calls])

CreateUstAppMetadata(a, sess, o) ==
    IF sess.metadata.present
    THEN [ret |-> "OK", sess |-> sess, calls |-> <<>>]
    ELSE IF o.fail = "alloc"
    THEN [ret |-> "ENOMEM", sess |-> sess, calls |-> <<>>]
    ELSE With(CreateUstChannel(a, "metadata",
                               NewChan("METADATA", TRUE, NoEvents), o),
              LAMBDA r :
         IF r.ret # "OK"
         THEN [ret |-> r.ret, sess |-> sess,
               calls |-> r.calls
                         \o OnSock(DeleteUstAppChannel(a, "metadata", r.chan),
                                   ErrorSock(a, r.chan))]
         ELSE [ret |-> "OK", sess |-> [sess EXCEPT !.metadata = r.chan],
               calls |-> r.calls])

(***************************************************************************)
(* Operations on the session, as called by the command layer and the       *)
(* application management thread.  An operation that walks ust_app_ht      *)
(* receives the order in which the table yields the registered apps.       *)
(***************************************************************************)
\* The app is in ust_app_ht: registered, and "updated" once
\* ust_app_global_update has run for it.
InHt(a) == uapps[a].state \in {"registered", "updated"}

Registered == {a \in TraceApps : InHt(a)}

\* The orders in which cds_lfht_for_each_entry can yield the apps.
Orders ==
    {s \in UNION {[1..n -> Registered] : n \in 0..Cardinality(TraceApps)} :
        /\ Len(s) = Cardinality(Registered)
        /\ \A i, j \in 1..Len(s) : i # j => s[i] # s[j]}

Op(name, a, chan, ret) == [name |-> name, app |-> a, chan |-> chan, ret |-> ret]

\* The application management thread has registered app a and validated
\* its version (ust_app_register, ust_app_validate_version).
app_registered(a, compatible) ==
    /\ uapps[a].state = "none"
    /\ uapps' = [uapps EXCEPT ![a].state = "registered",
                              ![a].compatible = compatible]
    /\ op' = Op("register", a, "none", "OK")
    /\ calls' = <<>>
    /\ UNCHANGED <<usess, regvars, keyvars, evtvars, kernvars>>

\* The walk of an operation starts with the shadows as they are, no call
\* made and ret = 0.
Walk0 == [apps |-> uapps, calls |-> <<>>, ret |-> "OK", left |-> FALSE]

\* State of the walk of ust_app_create_channel_glb after the apps
\* order[1..i-1]: the shadows, the calls made, ret, and whether the walk was
\* left (goto error_rcu_unlock, or the process stopped).
RECURSIVE CreateChannelGlb(_, _, _, _, _, _, _, _)
CreateChannelGlb(us, name, uchan, order, i, so, co, walk) ==
    With(walk, LAMBDA acc :
    IF i > Len(order) \/ acc.left THEN acc
    ELSE LET a == order[i] IN
         IF ~acc.apps[a].compatible
         THEN CreateChannelGlb(us, name, uchan, order, i + 1, so, co, acc)
         ELSE With(CreateUstAppSession(a, us, acc.apps[a].sess, so[a]),
                   LAMBDA s :
              IF s.ret = "ENOTCONN"
              THEN CreateChannelGlb(us, name, uchan, order, i + 1, so, co,
                       [acc EXCEPT !.apps[a].sess = s.sess,
                                   !.calls = @ \o s.calls,
                                   !.ret = s.ret])
              ELSE IF s.ret # "OK"
              THEN [acc EXCEPT !.apps[a].sess = s.sess,
                               !.calls = @ \o s.calls,
                               !.ret = s.ret, !.left = TRUE]
              ELSE With(CreateUstAppChannel(a, s.sess, name, uchan, co[a]),
                        LAMBDA c :
                   IF c.ret \in {"ENOMEM", "SIGSEGV"}
                   THEN [acc EXCEPT !.apps[a].sess = c.sess,
                                    !.calls = @ \o s.calls \o c.calls,
                                    !.ret = c.ret, !.left = TRUE]
                   ELSE IF c.ret # "OK" /\ s.created
                   THEN \* destroy_session on the session just created
                        CreateChannelGlb(us, name, uchan, order, i + 1, so,
                            co,
                            [acc EXCEPT
                                !.apps[a].sess = DestroySession(a, c.sess).sess,
                                !.calls = @ \o s.calls \o c.calls
                                            \o DestroySession(a, c.sess).calls,
                                !.ret = c.ret])
                   ELSE CreateChannelGlb(us, name, uchan, order, i + 1, so,
                            co,
                            [acc EXCEPT !.apps[a].sess = c.sess,
                                        !.calls = @ \o s.calls \o c.calls,
                                        !.ret = c.ret]))))

\* ust_app_create_channel_glb(usess, uchan) for a channel that is not in the
\* global domain yet.  The caller adds uchan to usess->domain_global.channels
\* when the return value is 0.
ust_app_create_channel_glb(name, enabled, order, so, co) ==
    /\ ~usess.channels[name].present
    /\ order \in Orders
    /\ LET uchan == [present |-> TRUE, enabled |-> enabled,
                     events |-> NoUEvents, ctx |-> FALSE] IN
       \E w \in {CreateChannelGlb(usess, name, uchan, order, 1, so, co,
                                  Walk0)} :
          /\ uapps' = w.apps
          /\ calls' = w.calls
          /\ op' = Op("create_channel_glb", NoApp, name, w.ret)
          /\ usess' = IF w.ret = "OK"
                      THEN [usess EXCEPT !.channels[name] = uchan]
                      ELSE usess
    /\ UNCHANGED <<regvars, keyvars, evtvars, kernvars>>

\* A call about event e of channel name.
EvCall(name, a, chan, e, ret) ==
    [call |-> name, app |-> a, obj |-> chan, ev |-> e, n |-> 0, ret |-> ret,
     sock |-> a]

\* Outcomes of create_ust_app_event: a failed alloc_ust_app_event, a failed
\* ustctl_create_event, or a failed ustctl_disable of an event created
\* disabled.
EvOutcomes ==
    {[fail |-> "none", err |-> "OK"], [fail |-> "alloc", err |-> "ENOMEM"]}
    \cup {[fail |-> "create", err |-> e] : e \in UstErrs \cup {"UST_ERR_EXIST"}}
    \cup {[fail |-> "disable", err |-> e] :
             e \in UstErrs \cup {"UST_ERR_EXIST", "UST_ERR_PERM"}}

\* create_ust_event(app, ua_sess, ua_chan, ua_event); no filter is set.
\* "ASSERT" is the failed assert(0) of the -LTTNG_UST_ERR_PERM case.
CreateUstEvent(a, name, e, ev, o) ==
    IF o.fail = "create"
    THEN [ret |-> o.err, ev |-> ev,
          calls |-> <<EvCall("create_event", a, name, e, o.err)>>]
    ELSE LET made == [ev EXCEPT !.obj = TRUE]
             c == <<EvCall("create_event", a, name, e, "OK")>> IN
         IF ev.enabled
         THEN [ret |-> "OK", ev |-> made, calls |-> c]
         ELSE LET r == IF o.fail = "disable" THEN o.err ELSE "OK" IN
              [ret |-> CASE r = "UST_ERR_PERM" -> "ASSERT"
                         [] r = "UST_ERR_EXIST" -> "OK"
                         [] OTHER -> r,
               ev |-> made,
               calls |-> c \o <<EvCall("disable_event", a, name, e, r)>>]

\* create_ust_app_event(ua_sess, ua_chan, uevent, app) on channel name of
\* the session.  An event found in the shadow gives -EEXIST; a tracer that
\* answers -LTTNG_UST_ERR_EXIST fails the assertion.
CreateUstAppEvent(a, sess, name, e, uevent, o) ==
    IF sess.channels[name].events[e].present
    THEN [ret |-> "EEXIST", sess |-> sess, calls |-> <<>>]
    ELSE IF o.fail = "alloc"
    THEN [ret |-> "ENOMEM", sess |-> sess, calls |-> <<>>]
    ELSE With(CreateUstEvent(a, name, e,
                     [present |-> TRUE, enabled |-> uevent.enabled,
                      obj |-> FALSE], o),
              LAMBDA r :
         IF r.ret = "UST_ERR_EXIST"
         THEN [ret |-> "ASSERT", sess |-> sess, calls |-> r.calls]
         ELSE IF r.ret # "OK"
         THEN [ret |-> r.ret, sess |-> sess,
               calls |-> r.calls \o
                         (IF r.ev.obj /\ r.ret # "ASSERT"
                          THEN OnSock(<<EvCall("release_object", a, name,
                                               e, "OK")>>, NoSock)
                          ELSE <<>>)]
         ELSE [ret |-> "OK",
               sess |-> [sess EXCEPT !.channels[name].events[e] = r.ev],
               calls |-> r.calls])

\* The walk of ust_app_create_event_glb.  A session that lacks the channel
\* fails assert(ua_chan_node).
RECURSIVE CreateEventGlb(_, _, _, _, _, _, _)
CreateEventGlb(name, e, uevent, order, i, eo, walk) ==
    With(walk, LAMBDA acc :
    IF i > Len(order) \/ acc.left THEN acc
    ELSE LET a == order[i] IN
         IF ~acc.apps[a].compatible \/ ~acc.apps[a].sess.present
         THEN CreateEventGlb(name, e, uevent, order, i + 1, eo, acc)
         ELSE IF ~acc.apps[a].sess.channels[name].present
         THEN [acc EXCEPT !.ret = "ASSERT", !.left = TRUE]
         ELSE With(CreateUstAppEvent(a, acc.apps[a].sess, name, e, uevent,
                                     eo[a]),
                   LAMBDA c :
              IF c.ret # "OK" /\ c.ret # "UST_ERR_EXIST"
              THEN [acc EXCEPT !.apps[a].sess = c.sess,
                               !.calls = @ \o c.calls,
                               !.ret = c.ret, !.left = TRUE]
              ELSE CreateEventGlb(name, e, uevent, order, i + 1, eo,
                       [acc EXCEPT !.apps[a].sess = c.sess,
                                   !.calls = @ \o c.calls,
                                   !.ret = c.ret])))

\* ust_app_create_event_glb(usess, uchan, uevent) for an event that is not
\* in the registry channel yet; the caller adds it when the return value
\* is 0.
ust_app_create_event_glb(name, e, enabled, order, eo) ==
    /\ usess.channels[name].present
    /\ ~usess.channels[name].events[e].present
    /\ order \in Orders
    /\ LET uevent == [present |-> TRUE, enabled |-> enabled] IN
       \E w \in {CreateEventGlb(name, e, uevent, order, 1, eo, Walk0)} :
          /\ uapps' = w.apps
          /\ calls' = w.calls
          /\ op' = Op("create_event_glb", NoApp, name, w.ret)
          /\ usess' = IF w.ret = "OK"
                      THEN [usess EXCEPT
                               !.channels[name].events[e] = uevent]
                      ELSE usess
    /\ UNCHANGED <<regvars, keyvars, evtvars, kernvars>>

\* The walk of ust_app_enable_event_glb; eo[a] is what ustctl_enable
\* returns for app a.
RECURSIVE EnableEventGlb(_, _, _, _, _, _)
EnableEventGlb(name, e, order, i, eo, walk) ==
    With(walk, LAMBDA acc :
    IF i > Len(order) \/ acc.left THEN acc
    ELSE LET a == order[i]
             c == <<EvCall("enable_event", a, name, e, eo[a])>> IN
         IF ~acc.apps[a].compatible \/ ~acc.apps[a].sess.present
         THEN EnableEventGlb(name, e, order, i + 1, eo, acc)
         ELSE IF ~acc.apps[a].sess.channels[name].present
         THEN [acc EXCEPT !.ret = "ASSERT", !.left = TRUE]
         ELSE IF ~acc.apps[a].sess.channels[name].events[e].present
         THEN EnableEventGlb(name, e, order, i + 1, eo, acc)
         ELSE IF eo[a] # "OK"
         THEN [acc EXCEPT !.calls = @ \o c, !.ret = eo[a], !.left = TRUE]
         ELSE EnableEventGlb(name, e, order, i + 1, eo,
                  [acc EXCEPT
                      !.apps[a].sess.channels[name].events[e].enabled = TRUE,
                      !.calls = @ \o c, !.ret = "OK"]))

\* ust_app_enable_event_glb(usess, uchan, uevent) for an event of the
\* registry channel; the caller sets uevent->enabled when the return value
\* is 0.
ust_app_enable_event_glb(name, e, order, eo) ==
    /\ usess.channels[name].present
    /\ usess.channels[name].events[e].present
    /\ order \in Orders
    /\ \E w \in {EnableEventGlb(name, e, order, 1, eo, Walk0)} :
          /\ uapps' = w.apps
          /\ calls' = w.calls
          /\ op' = Op("enable_event_glb", NoApp, name, w.ret)
          /\ usess' = IF w.ret = "OK"
                      THEN [usess EXCEPT
                               !.channels[name].events[e].enabled = TRUE]
                      ELSE usess
    /\ UNCHANGED <<regvars, keyvars, evtvars, kernvars>>

\* Outcomes of ust_app_start_trace: a failed run_as_mkdir_recursive, a
\* failed create_ust_app_metadata, or a failed ustctl_start_session after
\* the metadata channel was created with n streams.
StartOutcomes(n) ==
    {x \in AppChanOutcomes(n) : x.fail # "disable"}
    \cup {[fail |-> "mkdir", err |-> "ERR", n |-> 0, k |-> 0]}
    \cup {[fail |-> "start", err |-> e, n |-> n, k |-> n] : e \in UstErrs}

\* Variant of ust_app_start_trace that does not create the metadata.
StartSetup_mut_skip(a, sess, o) ==
    [ret |-> "OK", sess |-> sess, calls |-> <<>>]

\* The setup of ust_app_start_trace, skipped upon restart: the trace
\* directory, then create_ust_app_metadata.
StartSetup(a, sess, o) ==
    IF sess.started
    THEN [ret |-> "OK", sess |-> sess, calls |-> <<>>]
    ELSE IF o.fail = "mkdir"
    THEN [ret |-> "ERR", sess |-> sess,
          calls |-> <<Call("mkdir", a, "session", 0, "ERR")>>]
    ELSE With(CreateUstAppMetadata(a, sess,
                     IF o.fail = "start"
                     THEN [fail |-> "none", err |-> "OK", n |-> o.n,
                           k |-> o.n]
                     ELSE o),
              LAMBDA m :
         [ret |-> m.ret, sess |-> m.sess,
          calls |-> <<Call("mkdir", a, "session", 0, "OK")>> \o m.calls])

\* ust_app_start_trace(usess, app): returns 0 or -1 ("ERR").
StartTrace(a, app, o) ==
    IF ~app.compatible \/ ~app.sess.present
    THEN [ret |-> "OK", sess |-> app.sess, calls |-> <<>>]
    ELSE With(StartSetup(a, app.sess, o), LAMBDA s :
         IF s.ret # "OK"
         THEN [ret |-> "ERR", sess |-> s.sess, calls |-> s.calls]
         ELSE IF o.fail = "start"
         THEN [ret |-> "ERR", sess |-> s.sess,
               calls |-> s.calls
                         \o <<Call("start_session", a, "session", 0, o.err)>>]
         ELSE [ret |-> "OK", sess |-> [s.sess EXCEPT !.started = TRUE],
               calls |-> s.calls
                         \o <<Call("start_session", a, "session", 0, "OK"),
                              Call("wait_quiescent", a, "session", 0, "OK")>>])

\* The walk of ust_app_start_trace_all: the next app is taken even on error.
RECURSIVE StartTraceAll(_, _, _, _)
StartTraceAll(order, i, so, walk) ==
    With(walk, LAMBDA acc :
    IF i > Len(order) THEN acc
    ELSE LET a == order[i] IN
         With(StartTrace(a, acc.apps[a], so[a]), LAMBDA s :
         StartTraceAll(order, i + 1, so,
             [acc EXCEPT !.apps[a].sess = s.sess, !.calls = @ \o s.calls])))

\* ust_app_start_trace_all(usess), which returns 0; the command that calls
\* it has set usess->start_trace.
ust_app_start_trace_all(order, so) ==
    /\ order \in Orders
    /\ \E w \in {StartTraceAll(order, 1, so, Walk0)} :
          /\ uapps' = w.apps
          /\ calls' = w.calls
          /\ op' = Op("start_trace_all", NoApp, "none", "OK")
    /\ usess' = [usess EXCEPT !.start_trace = TRUE]
    /\ UNCHANGED <<regvars, keyvars, evtvars, kernvars>>

\* The orders in which ua_sess->channels can yield the channels of sess.
ChanOrders(sess) ==
    LET P == {c \in ChanNames : sess.channels[c].present} IN
    {s \in UNION {[1..n -> P] : n \in 0..Cardinality(ChanNames)} :
        /\ Len(s) = Cardinality(P)
        /\ \A i, j \in 1..Len(s) : i # j => s[i] # s[j]}

\* What ustctl_stop_session returns, and ustctl_sock_flush_buffer for each
\* channel and for the metadata.
StopOutcomes ==
    [stop : {"OK"} \cup UstErrs,
     flush : [ChanNames -> {"OK"} \cup FlushErrs],
     meta : {"OK"} \cup FlushErrs]

\* Variant of the flush loop that is left on any failure.
FlushNext_mut_stop(r) == IF r = "OK" THEN "next" ELSE "end"

\* After a flush that returned r: the loop goes on unless the app is gone.
FlushNext(r) == IF r \in Vanished THEN "end" ELSE "next"

\* The flush loop of ust_app_stop_trace from channel chorder[i] on, then
\* the flush of the metadata.  "ASSERT" is a failed assert(is_sent).
RECURSIVE FlushChannels(_, _, _, _, _)
FlushChannels(a, sess, chorder, i, o) ==
    IF i > Len(chorder)
    THEN IF ~(sess.metadata.present /\ sess.metadata.is_sent)
         THEN [ret |-> "ASSERT", calls |-> <<>>]
         ELSE [ret |-> IF o.meta \in {"OK"} \cup Vanished
                       THEN "OK" ELSE "ERR",
               calls |-> <<Call("flush", a, "metadata", 0, o.meta)>>]
    ELSE LET c == chorder[i]
             f == <<Call("flush", a, c, 0, o.flush[c])>> IN
         IF ~sess.channels[c].is_sent
         THEN [ret |-> "ASSERT", calls |-> <<>>]
         ELSE IF FlushNext(o.flush[c]) = "end"
         THEN [ret |-> "OK", calls |-> f]
         ELSE With(FlushChannels(a, sess, chorder, i + 1, o), LAMBDA r :
              [ret |-> r.ret, calls |-> f \o r.calls])

\* Variant of ust_app_stop_trace that does not test started.
NotStarted_mut_ignore(sess) == FALSE

\* if (!ua_sess->started) goto error_rcu_unlock;
NotStarted(sess) == ~sess.started

\* ust_app_stop_trace(usess, app): returns 0 or -1 ("ERR").
StopTrace(a, app, chorder, o) ==
    IF ~app.compatible \/ ~app.sess.present
    THEN [ret |-> "OK", sess |-> app.sess, calls |-> <<>>]
    ELSE IF NotStarted(app.sess)
    THEN [ret |-> "ERR", sess |-> app.sess, calls |-> <<>>]
    ELSE IF o.stop # "OK"
    THEN [ret |-> "ERR", sess |-> [app.sess EXCEPT !.stopped = TRUE],
          calls |-> <<Call("stop_session", a, "session", 0, o.stop)>>]
    ELSE With(FlushChannels(a, app.sess, chorder, 1, o), LAMBDA r :
         [ret |-> r.ret, sess |-> [app.sess EXCEPT !.stopped = TRUE],
          calls |-> <<Call("stop_session", a, "session", 0, "OK"),
                      Call("wait_quiescent", a, "session", 0, "OK")>>
                    \o r.calls])

\* ust_app_stop_trace(usess, app), as called by ust_app_stop_trace_all for
\* each registered app.
ust_app_stop_trace(a, chorder, o) ==
    /\ InHt(a)
    /\ chorder \in ChanOrders(uapps[a].sess)
    /\ \E r \in {StopTrace(a, uapps[a], chorder, o)} :
          /\ uapps' = [uapps EXCEPT ![a].sess = r.sess]
          /\ calls' = r.calls
          /\ op' = Op("stop_trace", a, "none", r.ret)
    /\ UNCHANGED <<usess, regvars, keyvars, evtvars, kernvars>>

\* destroy_trace(usess, app): returns 0.
DestroyTrace(a, app) ==
    IF ~app.compatible \/ ~app.sess.present
    THEN [sess |-> app.sess, calls |-> <<>>]
    ELSE [sess |-> NoUaSess,
          calls |-> DestroySession(a, app.sess).calls
                    \o <<Call("wait_quiescent", a, "session", 0, "OK")>>]

RECURSIVE DestroyTraceAll(_, _, _)
DestroyTraceAll(order, i, walk) ==
    With(walk, LAMBDA acc :
    IF i > Len(order) THEN acc
    ELSE LET a == order[i] IN
         With(DestroyTrace(a, acc.apps[a]), LAMBDA d :
         DestroyTraceAll(order, i + 1,
             [acc EXCEPT !.apps[a].sess = d.sess, !.calls = @ \o d.calls])))

\* ust_app_destroy_trace_all(usess), called when the session is destroyed:
\* the model goes on with a new, empty session.
ust_app_destroy_trace_all(order) ==
    /\ order \in Orders
    /\ \E w \in {DestroyTraceAll(order, 1, Walk0)} :
          /\ uapps' = w.apps
          /\ calls' = w.calls
          /\ op' = Op("destroy_trace_all", NoApp, "none", "OK")
    /\ usess' = [usess EXCEPT !.channels = [c \in ChanNames |-> NoUChan],
                              !.start_trace = FALSE]
    /\ UNCHANGED <<regvars, keyvars, evtvars, kernvars>>

\* ust_app_unregister(sock) and the delete_ust_app that follows the grace
\* period, for the sessions of app a: they leave app->sessions for the
\* teardown list and are deleted.
unregister_sessions(a) ==
    /\ InHt(a)
    /\ uapps' = [uapps EXCEPT ![a].state = "gone", ![a].sess = NoUaSess]
    /\ calls' = IF uapps[a].sess.present
                THEN DeleteUstAppSession(a, uapps[a].sess) ELSE <<>>
    /\ op' = Op("unregister", a, "none", "OK")
    /\ UNCHANGED <<usess, regvars, keyvars, evtvars, kernvars>>

\* Outcomes without failure.
OkChan(n) == [fail |-> "none", err |-> "OK", n |-> n, k |-> n]
OkEv == [fail |-> "none", err |-> "OK"]

\* Outcomes of ust_app_global_update, which is left at the first failure,
\* when the consumer answers n streams per channel: at most one step fails,
\* in create_ust_app_session, in create_ust_channel or create_ust_event for
\* the channel `at', or in ust_app_start_trace.
GlobalOutcomes(n) ==
    {[at |-> "none", so |-> "OK", co |-> OkChan(n), eo |-> OkEv, n |-> n]}
    \cup {[at |-> "session", so |-> x, co |-> OkChan(n), eo |-> OkEv,
           n |-> n] : x \in SessOutcomes \ {"OK"}}
    \cup {[at |-> c, so |-> "OK", co |-> x, eo |-> OkEv, n |-> n] :
             c \in ChanNames,
             x \in {y \in ChanOutcomes(n) : y.fail # "none"}}
    \cup {[at |-> c, so |-> "OK", co |-> OkChan(n), eo |-> y, n |-> n] :
             c \in ChanNames,
             y \in {z \in EvOutcomes : z.fail \in {"create", "disable"}}}
    \cup {[at |-> "start", so |-> "OK", co |-> x, eo |-> OkEv, n |-> n] :
             x \in {y \in StartOutcomes(n) : y.fail # "none"}}

\* create_ust_event for the events of channel name, left at the first
\* failure.
RECURSIVE UpdateEvents(_, _, _, _, _)
UpdateEvents(a, name, chan, todo, o) ==
    IF todo = {} THEN [ret |-> "OK", chan |-> chan, calls |-> <<>>]
    ELSE LET e == CHOOSE x \in todo : TRUE IN
         IF ~chan.events[e].present
         THEN UpdateEvents(a, name, chan, todo \ {e}, o)
         ELSE With(CreateUstEvent(a, name, e, chan.events[e], o), LAMBDA r :
              IF r.ret # "OK"
              THEN [ret |-> r.ret, chan |-> [chan EXCEPT !.events[e] = r.ev],
                    calls |-> r.calls]
              ELSE With(UpdateEvents(a, name,
                                     [chan EXCEPT !.events[e] = r.ev],
                                     todo \ {e}, o),
                        LAMBDA u :
                   [ret |-> u.ret, chan |-> u.chan,
                    calls |-> r.calls \o u.calls]))

\* create_ust_channel, then create_ust_channel_context for the context
\* (with a ustctl_add_context that succeeds) and create_ust_event for each
\* event of the channel.
UpdateChannel(a, name, chan, co, eo) ==
    With(CreateUstChannel(a, name, chan, co), LAMBDA r :
    IF r.ret # "OK" THEN r
    ELSE With(IF r.chan.ctx.present
              THEN [chan |-> [r.chan EXCEPT !.ctx.obj = TRUE],
                    calls |-> <<Call("add_context", a, name, 0, "OK")>>]
              ELSE [chan |-> r.chan, calls |-> <<>>], LAMBDA x :
         With(UpdateEvents(a, name, x.chan, SessEvents, eo), LAMBDA e :
         [ret |-> e.ret, chan |-> e.chan,
          calls |-> r.calls \o x.calls \o e.calls])))

\* The walk of ust_app_global_update over ua_sess->channels, left at the
\* first failure.
RECURSIVE UpdateChannels(_, _, _, _, _)
UpdateChannels(a, sess0, chorder, i, g) ==
    With(sess0, LAMBDA sess :
    IF i > Len(chorder) THEN [ret |-> "OK", sess |-> sess, calls |-> <<>>]
    ELSE LET c == chorder[i] IN
         IF ~sess.channels[c].present
         THEN UpdateChannels(a, sess, chorder, i + 1, g)
         ELSE With(UpdateChannel(a, c, sess.channels[c],
                       IF g.at = c THEN g.co ELSE OkChan(g.n),
                       IF g.at = c THEN g.eo ELSE OkEv),
                   LAMBDA r :
              IF r.ret # "OK"
              THEN [ret |-> r.ret,
                    sess |-> [sess EXCEPT !.channels[c] = r.chan],
                    calls |-> r.calls]
              ELSE With(UpdateChannels(a,
                            [sess EXCEPT !.channels[c] = r.chan],
                            chorder, i + 1, g),
                        LAMBDA u :
                   [ret |-> u.ret, sess |-> u.sess,
                    calls |-> r.calls \o u.calls])))

\* The end of ust_app_global_update after the channels: ust_app_start_trace
\* when usess->start_trace is set.
UpdateStart(a, us, app, u, g) ==
    IF u.ret # "OK" \/ ~us.start_trace THEN u
    ELSE With(StartTrace(a, [app EXCEPT !.sess = u.sess],
                         IF g.at = "start" THEN g.co ELSE OkChan(g.n)),
              LAMBDA t :
         [ret |-> t.ret, sess |-> t.sess, calls |-> u.calls \o t.calls])

\* Variant of ust_app_global_update that returns on error without
\* destroy_session.
GlobalUpdate_mut_keep(a, us, app, chorder, g) ==
    IF ~app.compatible
    THEN [ret |-> "OK", sess |-> app.sess, calls |-> <<>>]
    ELSE With(CreateUstAppSession(a, us, app.sess, g.so), LAMBDA s :
         IF s.ret # "OK"
         THEN [ret |-> s.ret, sess |-> s.sess, calls |-> s.calls]
         ELSE With(UpdateStart(a, us, app,
                       UpdateChannels(a, s.sess, chorder, 1, g), g),
                   LAMBDA u :
              [ret |-> u.ret, sess |-> u.sess,
               calls |-> s.calls \o u.calls]))

\* ust_app_global_update(usess, sock) for the app found under sock.  On
\* error the session is destroyed; a failed assertion stops the process.
GlobalUpdate(a, us, app, chorder, g) ==
    IF ~app.compatible
    THEN [ret |-> "OK", sess |-> app.sess, calls |-> <<>>]
    ELSE With(CreateUstAppSession(a, us, app.sess, g.so), LAMBDA s :
         IF s.ret # "OK"
         THEN [ret |-> s.ret, sess |-> s.sess, calls |-> s.calls]
         ELSE With(UpdateStart(a, us, app,
                       UpdateChannels(a, s.sess, chorder, 1, g), g),
                   LAMBDA u :
              IF u.ret \in {"OK", "ASSERT"}
              THEN [ret |-> u.ret, sess |-> u.sess,
                    calls |-> s.calls \o u.calls]
              ELSE [ret |-> u.ret, sess |-> NoUaSess,
                    calls |-> s.calls \o u.calls
                              \o DestroySession(a, u.sess).calls]))

\* The orders in which a channel table can yield the names.
NameOrders ==
    {s \in [1..Cardinality(ChanNames) -> ChanNames] :
        \A i, j \in 1..Len(s) : i # j => s[i] # s[j]}

\* ust_app_global_update(usess, app->sock), which the registration thread
\* calls once for an app it has registered.
ust_app_global_update(a, chorder, g) ==
    /\ uapps[a].state = "registered"
    /\ chorder \in NameOrders
    /\ \E r \in {GlobalUpdate(a, usess, uapps[a], chorder, g)} :
          /\ uapps' = [uapps EXCEPT ![a].sess = r.sess,
                                    ![a].state = "updated"]
          /\ calls' = r.calls
          /\ op' = Op("global_update", a, "none", r.ret)
    /\ UNCHANGED <<usess, regvars, keyvars, evtvars, kernvars>>

(***************************************************************************)
(* Specifications of the session model.  Each of them runs the operations  *)
(* it is about under every outcome, and the others under a few outcomes:   *)
(* success, a consumer that refuses the channel, an app that is gone.      *)
(***************************************************************************)
\* The stream count that the consumer of the session answers.
NbStreams == usess.consumer.streams

\* Outcomes for the apps of a walk: app 1 takes o, the others succeed.
One(o, ok) == [a \in TraceApps |-> IF a = 1 THEN o ELSE ok]

FewChanOutcomes(n) ==
    {OkChan(n), [fail |-> "ask", err |-> "ERR", n |-> 0, k |-> 0],
     [fail |-> "send_chan", err |-> "EPIPE", n |-> n, k |-> n]}

FewStartOutcomes(n) ==
    FewChanOutcomes(n)
    \cup {[fail |-> "start", err |-> "EPIPE", n |-> n, k |-> n]}

FewGlobalOutcomes(n) ==
    {g \in GlobalOutcomes(n) :
        /\ g.so \in {"OK", "EPIPE"}
        /\ g.co \in FewStartOutcomes(n)
        /\ g.eo \in {OkEv, [fail |-> "create", err |-> "EPIPE"]}}

\* Both consumers are there, and the consumer of the session answers
\* between 0 and MaxStreams streams.
InitSessAny ==
    /\ Init
    /\ ust_consumerd32_fd = "fd"
    /\ ust_consumerd64_fd = "fd"

\* The same with a consumer that answers one stream per channel.
InitSessOne ==
    /\ InitSessAny
    /\ NbStreams = 1

\* SpecChan: one channel and the metadata of one app, created by every
\* operation that creates channels, under every outcome of
\* create_ust_channel.
NextChan ==
    \/ app_registered(1, TRUE)
    \/ \E c \in {"ch1"}, en \in BOOLEAN, order \in Orders,
          co \in AppChanOutcomes(NbStreams) :
          ust_app_create_channel_glb(c, en, order, One("OK", "OK"),
                                     One(co, OkChan(NbStreams)))
    \/ \E order \in Orders, so \in StartOutcomes(NbStreams) :
          ust_app_start_trace_all(order, One(so, OkChan(NbStreams)))
    \/ \E order \in Orders : ust_app_destroy_trace_all(order)
    \/ \E chorder \in NameOrders,
          g \in {x \in GlobalOutcomes(NbStreams) :
                    x.so \in {"OK", "EPIPE"} /\ x.eo = OkEv} :
          ust_app_global_update(1, chorder, g)

SpecChan == InitSessAny /\ [][NextChan]_vars

\* SpecTrace: start, stop and teardown of the session of one app.
NextTrace ==
    \/ app_registered(1, TRUE)
    \/ \E c \in ChanNames, order \in Orders, so \in {"OK", "EPIPE"},
          co \in FewChanOutcomes(NbStreams) :
          ust_app_create_channel_glb(c, TRUE, order, One(so, "OK"),
                                     One(co, OkChan(NbStreams)))
    \/ \E order \in Orders, so \in StartOutcomes(NbStreams) :
          ust_app_start_trace_all(order, One(so, OkChan(NbStreams)))
    \/ \E chorder \in ChanOrders(uapps[1].sess), o \in StopOutcomes :
          ust_app_stop_trace(1, chorder, o)
    \/ \E order \in Orders : ust_app_destroy_trace_all(order)
    \/ \E chorder \in NameOrders, g \in FewGlobalOutcomes(NbStreams) :
          ust_app_global_update(1, chorder, g)
    \/ unregister_sessions(1)

SpecTrace == InitSessOne /\ [][NextTrace]_vars

\* SpecOrder: sessions, channels and events of one app, and the calls made
\* to its tracer.
NextOrder ==
    \/ app_registered(1, TRUE)
    \/ \E c \in ChanNames, order \in Orders, so \in {"OK", "EPIPE"},
          co \in FewChanOutcomes(NbStreams) :
          ust_app_create_channel_glb(c, TRUE, order, One(so, "OK"),
                                     One(co, OkChan(NbStreams)))
    \/ \E c \in ChanNames, e \in SessEvents, en \in BOOLEAN,
          order \in Orders, eo \in EvOutcomes :
          ust_app_create_event_glb(c, e, en, order, One(eo, OkEv))
    \/ \E c \in ChanNames, e \in SessEvents, order \in Orders,
          eo \in {"OK"} \cup UstErrs :
          ust_app_enable_event_glb(c, e, order, One(eo, "OK"))
    \/ \E chorder \in NameOrders, g \in FewGlobalOutcomes(NbStreams) :
          ust_app_global_update(1, chorder, g)

SpecOrder == InitSessOne /\ [][NextOrder]_vars

\* SpecGlb: the operations that walk ust_app_ht, over two apps with an
\* outcome for each.
NextGlb ==
    \/ \E a \in TraceApps : app_registered(a, TRUE)
    \/ \E c \in {"ch1"}, order \in Orders,
          co \in [TraceApps -> FewChanOutcomes(NbStreams)] :
          ust_app_create_channel_glb(c, TRUE, order,
                                     [a \in TraceApps |-> "OK"], co)
    \/ \E c \in {"ch1"}, e \in SessEvents, en \in BOOLEAN, order \in Orders,
          eo \in [TraceApps -> EvOutcomes] :
          ust_app_create_event_glb(c, e, en, order, eo)
    \/ \E c \in {"ch1"}, e \in SessEvents, order \in Orders,
          eo \in [TraceApps -> {"OK"} \cup UstErrs] :
          ust_app_enable_event_glb(c, e, order, eo)
    \/ \E order \in Orders : ust_app_destroy_trace_all(order)

SpecGlb == InitSessOne /\ [][NextGlb]_vars

\* SpecMiss: the channels and events of two apps, where the creation of a
\* channel can fail for one app and succeed for the other.
NextMiss ==
    \/ \E a \in TraceApps : app_registered(a, TRUE)
    \/ \E c \in ChanNames, order \in Orders,
          co \in [TraceApps -> {OkChan(NbStreams),
                                [fail |-> "send_chan", err |-> "EPIPE",
                                 n |-> NbStreams, k |-> NbStreams]}] :
          ust_app_create_channel_glb(c, TRUE, order,
                                     [a \in TraceApps |-> "OK"], co)
    \/ \E c \in ChanNames, e \in SessEvents, en \in BOOLEAN, order \in Orders :
          ust_app_create_event_glb(c, e, en, order,
                                   [a \in TraceApps |-> OkEv])
    \/ \E c \in ChanNames, e \in SessEvents, order \in Orders :
          ust_app_enable_event_glb(c, e, order, [a \in TraceApps |-> "OK"])
    \/ \E order \in Orders : ust_app_destroy_trace_all(order)

SpecMiss == InitSessOne /\ [][NextMiss]_vars

\* SpecUpdate: ust_app_global_update for one app under every outcome of
\* the session, of each channel and event and of the start, on a global
\* session with channels, events created enabled or not, started or not.
NextUpdate ==
    \/ app_registered(1, TRUE)
    \/ \E c \in ChanNames, order \in Orders :
          ust_app_create_channel_glb(c, TRUE, order,
                                     [a \in TraceApps |-> "OK"],
                                     [a \in TraceApps |-> OkChan(NbStreams)])
    \/ \E c \in ChanNames, e \in SessEvents, en \in BOOLEAN, order \in Orders :
          ust_app_create_event_glb(c, e, en, order,
                                   [a \in TraceApps |-> OkEv])
    \/ \E order \in Orders :
          ust_app_start_trace_all(order,
                                  [a \in TraceApps |-> OkChan(NbStreams)])
    \/ \E chorder \in NameOrders, g \in GlobalOutcomes(NbStreams) :
          ust_app_global_update(1, chorder, g)

SpecUpdate == InitSessOne /\ [][NextUpdate]_vars

(***************************************************************************)
(* Enumeration of the tracepoints and of the tracepoint fields of the      *)
(* registered apps: ust_app_list_events and ust_app_list_event_fields,     *)
(* which differ by the tracer calls and the size of an entry only.  The    *)
(* entries of an app are counted, not told apart.                          *)
(***************************************************************************)
\* Outcomes of the enumeration of one app: the return of
\* ustctl_tracepoint_list, the number of entries the app yields, and the
\* return of the ustctl_tracepoint_list_get that follows the last entry.
ListOutcomes ==
    [list : {"OK", "EPIPE"}, n : {1, UST_APP_EVENT_LIST_SIZE},
     get : {"NOENT"} \cup UstErrs]

\* nbmem after the entries up to count need were stored: doubled each time
\* an entry arrived with count >= nbmem.
RECURSIVE Grow(_, _)
Grow(nbmem, need) == IF need <= nbmem THEN nbmem ELSE Grow(2 * nbmem, need)

\* Variant that goes on with the next app when the app is gone.
ListGetFailed_mut_tolerant(ret) == ret \notin {"NOENT"} \cup Vanished

\* if (ret < 0) inside the while loop: every return of list_get other than
\* -LTTNG_UST_ERR_NOENT frees the buffer and ends the enumeration.
ListGetFailed(ret) == ret # "NOENT"

\* The body of the loop for app a: kind names the tracer call, oom tells
\* whether realloc fails.
ListApp(kind, a, o, oom, acc) ==
    LET c_list == <<Call(kind, a, "none", 0, o.list)>>
        c_get(r) == <<Call(kind \o "_get", a, "none", o.n, r)>>
        c_realloc(r) == <<Call("realloc", a, "none", 0, r)>>
        grows == acc.count + o.n > acc.nbmem
    IN
    IF o.list # "OK"
    THEN [acc EXCEPT !.calls = @ \o c_list]
    ELSE IF grows /\ oom
    THEN [acc EXCEPT !.calls = @ \o c_list \o c_realloc("ENOMEM"),
                     !.ret = "ENOMEM", !.freed = TRUE, !.left = TRUE]
    ELSE IF ListGetFailed(o.get)
    THEN [acc EXCEPT !.calls = @ \o c_list
                                \o (IF grows THEN c_realloc("OK") ELSE <<>>)
                                \o c_get(o.get),
                     !.ret = o.get, !.freed = TRUE, !.left = TRUE]
    ELSE [acc EXCEPT !.calls = @ \o c_list
                                \o (IF grows THEN c_realloc("OK") ELSE <<>>)
                                \o c_get(o.get),
                     !.count = @ + o.n,
                     !.nbmem = Grow(@, acc.count + o.n)]

\* The walk of ust_app_ht.
RECURSIVE ListWalk(_, _, _, _, _, _)
ListWalk(kind, order, i, lo, oom, walk) ==
    With(walk, LAMBDA acc :
    IF i > Len(order) \/ acc.left THEN acc
    ELSE IF ~uapps[order[i]].compatible
    THEN ListWalk(kind, order, i + 1, lo, oom, acc)
    ELSE ListWalk(kind, order, i + 1, lo, oom,
                  ListApp(kind, order[i], lo[order[i]], oom, acc)))

\* ust_app_list_events(events) and ust_app_list_event_fields(fields): zoom
\* tells whether the first zmalloc fails.  The value returned, the count of
\* entries or a negative code, is logged as "return".
ListAll(kind, order, lo, zoom, oom) ==
    IF zoom
    THEN [ret |-> "ENOMEM", calls |-> <<Call("return", NoApp, kind, 0, "ENOMEM")>>]
    ELSE With(ListWalk(kind, order, 1, lo, oom,
                       [count |-> 0, nbmem |-> UST_APP_EVENT_LIST_SIZE,
                        calls |-> <<>>, ret |-> "OK", freed |-> FALSE,
                        left |-> FALSE]),
              LAMBDA w :
         [ret |-> w.ret,
          calls |-> w.calls \o
                    <<Call("return", NoApp, kind,
                           IF w.freed THEN 0 ELSE w.count, w.ret)>>])

ust_app_list_events(order, lo, zoom, oom) ==
    /\ order \in Orders
    /\ \E r \in {ListAll("tracepoint_list", order, lo, zoom, oom)} :
          /\ calls' = r.calls
          /\ op' = Op("list_events", NoApp, "none", r.ret)
    /\ UNCHANGED <<usess, uapps, regvars, keyvars, evtvars, kernvars>>

ust_app_list_event_fields(order, lo, zoom, oom) ==
    /\ order \in Orders
    /\ \E r \in {ListAll("tracepoint_field_list", order, lo, zoom, oom)} :
          /\ calls' = r.calls
          /\ op' = Op("list_event_fields", NoApp, "none", r.ret)
    /\ UNCHANGED <<usess, uapps, regvars, keyvars, evtvars, kernvars>>

\* SpecList: the enumerations over two apps, under every outcome.
NextList ==
    \/ \E a \in TraceApps, compatible \in BOOLEAN :
          app_registered(a, compatible)
    \/ \E order \in Orders, lo \in [TraceApps -> ListOutcomes],
          zoom, oom \in BOOLEAN : ust_app_list_events(order, lo, zoom, oom)
    \/ \E order \in Orders, lo \in [TraceApps -> ListOutcomes],
          zoom, oom \in BOOLEAN :
          ust_app_list_event_fields(order, lo, zoom, oom)

SpecList == InitSessOne /\ [][NextList]_vars

(***************************************************************************)
(* Kernel consumer (src/bin/lttng-sessiond/kernel-consumer.c): the         *)
(* messages sent to the consumer for the channels and streams of a kernel  *)
(* session.  A channel is [fd, stream_list], a stream [fd, cpu]; the       *)
(* channel fd is the key of the channel on the consumer.                   *)
(***************************************************************************)
\* For each stream of a channel, whether it is opened: a stream per cpu.
KOpened == UNION {[1..n -> BOOLEAN] : n \in 0..MaxKStreams}

\* The stream list of channel chan_fd: the fd of a stream is 0 as long as
\* the stream is not opened.
KStreams(chan_fd, opened) ==
    [i \in DOMAIN opened |->
        [fd |-> IF opened[i] THEN 10 * chan_fd + i ELSE 0, cpu |-> i - 1]]

\* The channels a kernel session can hold: channel i of the list has fd i.
KChannelLists ==
    UNION {{[i \in 1..n |-> [fd |-> i, stream_list |-> KStreams(i, f[i])]] :
               f \in [1..n -> KOpened]} : n \in 0..MaxKChans}

\* A message handed to consumer_send_channel or consumer_send_stream, and
\* what the call returned.
KMsg(cmd, channel_key, stream_key, cpu, ret) ==
    [cmd |-> cmd, channel_key |-> channel_key, stream_key |-> stream_key,
     cpu |-> cpu, type |-> "DATA", name |-> "channel", stream_count |-> 0,
     no_monitor |-> FALSE, ret |-> ret]

\* Outcomes of kernel_consumer_send_channel_stream: snprintf, the creation
\* of the trace directory, consumer_send_channel, and the position in the
\* stream list of the stream whose consumer_send_stream fails (0: none).
KChanOutcomes ==
    [snprintf : {"OK", "ERR"}, mkdir : {"OK", "EEXIST", "ERR"},
     channel : {"OK", "ERR"}, stream : 0..MaxKStreams]

\* The path name destination: snprintf, and for a local consumer
\* run_as_mkdir_recursive, which may find the directory.
KPathname(sess, o) ==
    IF o.snprintf # "OK" THEN "ERR"
    ELSE IF sess.consumer.type = "LOCAL" /\ o.mkdir = "ERR" THEN "ERR"
    ELSE "OK"

\* kernel_consumer_add_channel(sock, channel, session)
kernel_consumer_add_channel(sess, channel, o) ==
    IF KPathname(sess, o) # "OK"
    THEN [ret |-> "ERR", msgs |-> <<>>]
    ELSE [ret |-> o.channel,
          msgs |-> <<[KMsg("ADD_CHANNEL", channel.fd, 0, 0, o.channel)
                         EXCEPT !.stream_count = Len(channel.stream_list)]>>]

\* kernel_consumer_add_stream(sock, channel, stream, session)
kernel_consumer_add_stream(channel, stream, r) ==
    [ret |-> r,
     msgs |-> <<KMsg("ADD_STREAM", channel.fd, stream.fd, stream.cpu, r)>>]

\* Variant of the stream loop that sends the streams without fd too.
StreamSkipped_mut_never(stream) == FALSE

\* if (!stream->fd) continue;
StreamSkipped(stream) == stream.fd = 0

\* The stream loop of kernel_consumer_send_channel_stream from position i
\* on; ret is the value of ret when the loop is entered there.
RECURSIVE KSendStreams(_, _, _, _)
KSendStreams(channel, i, o, ret) ==
    IF i > Len(channel.stream_list) THEN [ret |-> ret, msgs |-> <<>>]
    ELSE IF StreamSkipped(channel.stream_list[i])
    THEN KSendStreams(channel, i + 1, o, ret)
    ELSE With(kernel_consumer_add_stream(channel, channel.stream_list[i],
                  IF o.stream = i THEN "ERR" ELSE "OK"),
              LAMBDA s :
         IF s.ret # "OK" THEN s
         ELSE With(KSendStreams(channel, i + 1, o, s.ret), LAMBDA t :
              [ret |-> t.ret, msgs |-> s.msgs \o t.msgs]))

\* Variant that sends the streams before the channel.
KSendChannelStream_mut_streams(sess, channel, o) ==
    IF ~sess.consumer.enabled
    THEN [ret |-> "LTTNG_OK", msgs |-> <<>>]
    ELSE With(KSendStreams(channel, 1, o, "OK"), LAMBDA t :
         IF t.ret # "OK" THEN t
         ELSE With(kernel_consumer_add_channel(sess, channel, o), LAMBDA c :
              [ret |-> c.ret, msgs |-> t.msgs \o c.msgs]))

\* kernel_consumer_send_channel_stream(sock, channel, session): LTTNG_OK
\* when the consumer is disabled, else the return of the last call made.
KSendChannelStream(sess, channel, o) ==
    IF ~sess.consumer.enabled
    THEN [ret |-> "LTTNG_OK", msgs |-> <<>>]
    ELSE With(kernel_consumer_add_channel(sess, channel, o), LAMBDA c :
         IF c.ret # "OK" THEN c
         ELSE With(KSendStreams(channel, 1, o, c.ret), LAMBDA t :
              [ret |-> t.ret, msgs |-> c.msgs \o t.msgs]))

\* kernel_consumer_send_channel_stream for channel i of the session.
kernel_consumer_send_channel_stream(i, o) ==
    /\ i \in DOMAIN ksess.channel_list
    /\ \E r \in {KSendChannelStream(ksess, ksess.channel_list[i], o)} :
          /\ kmsgs' = r.msgs
          /\ kop' = [name |-> "send_channel_stream",
                     chan |-> ksess.channel_list[i].fd, ret |-> r.ret]
    /\ UNCHANGED <<ksess, regvars, keyvars, evtvars, sessvars>>

\* SpecHandoff: the handoff of the channels of one app, for which the
\* consumer answers MaxStreams streams, and of one kernel channel.  The
\* consumer of the kernel session is enabled or not, local or
\* on the network, and the channel has any of its stream lists.
InitHandoff ==
    /\ InitReg /\ InitKey /\ InitEvt /\ InitSess
    /\ ust_consumerd32_fd = "fd" /\ ust_consumerd64_fd = "fd"
    /\ NbStreams = MaxStreams
    /\ \E enabled \in BOOLEAN, type \in {"LOCAL", "NET"},
          channel_list \in {l \in KChannelLists : Len(l) = 1} :
          ksess = KSession(enabled, type, -1, channel_list)
    /\ kop = NoKOp
    /\ kmsgs = <<>>

NextHandoff ==
    \/ app_registered(1, TRUE)
    \/ \E en \in BOOLEAN, order \in Orders,
          co \in AppChanOutcomes(NbStreams) :
          ust_app_create_channel_glb("ch1", en, order, One("OK", "OK"),
                                     One(co, OkChan(NbStreams)))
    \/ \E order \in Orders, so \in FewStartOutcomes(NbStreams) :
          ust_app_start_trace_all(order, One(so, OkChan(NbStreams)))
    \/ \E order \in Orders : ust_app_destroy_trace_all(order)
    \/ \E i \in 1..MaxKChans, o \in KChanOutcomes :
          kernel_consumer_send_channel_stream(i, o)

SpecHandoff == InitHandoff /\ [][NextHandoff]_vars

(***************************************************************************)
(* ust_app_disable_channel_glb and ust_app_enable_channel_glb              *)
(***************************************************************************)
\* The walk of ust_app_disable_channel_glb; d[a] is what ustctl_disable
\* returns for app a.  An app that is not compatible or has no session is
\* skipped; the two assertions stop the process ("ASSERT" for the channel
\* that is not in the session, "ASSERT_ENABLED" for the channel that is
\* disabled already); disable_ust_app_channel clears ua_chan->enabled when
\* ustctl_disable returned 0, and a failed disable goes on with the next
\* app.
RECURSIVE DisableChannelGlb(_, _, _, _, _)
DisableChannelGlb(name, order, i, d, walk) ==
    With(walk, LAMBDA acc :
    IF i > Len(order) \/ acc.left THEN acc
    ELSE LET a == order[i]
             c == <<Call("disable", a, name, 0, d[a])>> IN
         IF ~acc.apps[a].compatible \/ ~acc.apps[a].sess.present
         THEN DisableChannelGlb(name, order, i + 1, d, acc)
         ELSE IF ~acc.apps[a].sess.channels[name].present
         THEN [acc EXCEPT !.ret = "ASSERT", !.left = TRUE]
         ELSE IF ~acc.apps[a].sess.channels[name].enabled
         THEN [acc EXCEPT !.ret = "ASSERT_ENABLED", !.left = TRUE]
         ELSE DisableChannelGlb(name, order, i + 1, d,
                  [acc EXCEPT
                      !.apps[a].sess.channels[name].enabled =
                          IF d[a] = "OK" THEN FALSE ELSE @,
                      !.calls = @ \o c, !.ret = d[a]]))

\* ust_app_disable_channel_glb(usess, uchan) for a channel of the global
\* domain that is enabled; the caller clears uchan->enabled when the return
\* value is 0.
ust_app_disable_channel_glb(name, order, d) ==
    /\ usess.channels[name].present
    /\ usess.channels[name].enabled
    /\ order \in Orders
    /\ \E w \in {DisableChannelGlb(name, order, 1, d, Walk0)} :
          /\ uapps' = w.apps
          /\ calls' = w.calls
          /\ op' = Op("disable_channel_glb", NoApp, name, w.ret)
          /\ usess' = IF w.ret = "OK"
                      THEN [usess EXCEPT !.channels[name].enabled = FALSE]
                      ELSE usess
    /\ UNCHANGED <<regvars, keyvars, evtvars, kernvars>>

\* The walk of ust_app_enable_channel_glb; e[a] is what ustctl_enable
\* returns for app a.  enable_ust_app_channel returns 0 for a session that
\* lacks the channel; enable_ust_channel sets ua_chan->enabled when
\* ustctl_enable returned 0, and a failed enable goes on with the next app.
RECURSIVE EnableChannelGlb(_, _, _, _, _)
EnableChannelGlb(name, order, i, e, walk) ==
    With(walk, LAMBDA acc :
    IF i > Len(order) \/ acc.left THEN acc
    ELSE LET a == order[i]
             c == <<Call("enable", a, name, 0, e[a])>> IN
         IF ~acc.apps[a].compatible \/ ~acc.apps[a].sess.present
         THEN EnableChannelGlb(name, order, i + 1, e, acc)
         ELSE IF ~acc.apps[a].sess.channels[name].present
         THEN EnableChannelGlb(name, order, i + 1, e,
                               [acc EXCEPT !.ret = "OK"])
         ELSE EnableChannelGlb(name, order, i + 1, e,
                  [acc EXCEPT
                      !.apps[a].sess.channels[name].enabled =
                          IF e[a] = "OK" THEN TRUE ELSE @,
                      !.calls = @ \o c, !.ret = e[a]]))

\* ust_app_enable_channel_glb(usess, uchan) for a channel of the global
\* domain that is disabled; the caller sets uchan->enabled when the return
\* value is 0.
ust_app_enable_channel_glb(name, order, e) ==
    /\ usess.channels[name].present
    /\ ~usess.channels[name].enabled
    /\ order \in Orders
    /\ \E w \in {EnableChannelGlb(name, order, 1, e, Walk0)} :
          /\ uapps' = w.apps
          /\ calls' = w.calls
          /\ op' = Op("enable_channel_glb", NoApp, name, w.ret)
          /\ usess' = IF w.ret = "OK"
                      THEN [usess EXCEPT !.channels[name].enabled = TRUE]
                      ELSE usess
    /\ UNCHANGED <<regvars, keyvars, evtvars, kernvars>>

\* SpecEnable: one channel of the global domain, enabled and disabled for
\* two apps whose tracers can fail either call.
NextEnable ==
    \/ \E a \in TraceApps : app_registered(a, TRUE)
    \/ \E en \in BOOLEAN, order \in Orders :
          ust_app_create_channel_glb("ch1", en, order,
                                     [a \in TraceApps |-> "OK"],
                                     [a \in TraceApps |-> OkChan(NbStreams)])
    \/ \E a \in TraceApps, chorder \in NameOrders,
          g \in {x \in GlobalOutcomes(NbStreams) :
                    x.at \in {"none", "session"}} :
          ust_app_global_update(a, chorder, g)
    \/ \E order \in Orders, d \in [TraceApps -> {"OK"} \cup UstErrs] :
          ust_app_disable_channel_glb("ch1", order, d)
    \/ \E order \in Orders, e \in [TraceApps -> {"OK"} \cup UstErrs] :
          ust_app_enable_channel_glb("ch1", order, e)
    \/ \E a \in TraceApps : unregister_sessions(a)

SpecEnable == InitSessOne /\ [][NextEnable]_vars

(***************************************************************************)
(* ust_app_add_ctx_channel_glb                                             *)
(***************************************************************************)
\* create_ust_app_channel_context(ua_sess, ua_chan, uctx, app) under
\* outcome o, a failed alloc_ust_app_ctx ("alloc") or what
\* ustctl_add_context returns: -EEXIST
\* when the context is in ua_chan->ctx; else the ust_app_ctx is allocated
\* and added to ua_chan->ctx, and then created on the tracer.
CreateUstAppChannelContext(a, name, ch, o) ==
    IF ch.ctx.present
    THEN [ret |-> "EEXIST", chan |-> ch, calls |-> <<>>]
    ELSE IF o = "alloc"
    THEN [ret |-> "ERR", chan |-> ch, calls |-> <<>>]
    ELSE [ret |-> o,
          chan |-> [ch EXCEPT !.ctx = [present |-> TRUE, obj |-> o = "OK"]],
          calls |-> <<Call("add_context", a, name, 0, o)>>]

\* The walk of ust_app_add_ctx_channel_glb; o[a] is the outcome for app a.
\* An app that is not compatible, has no session or lacks the channel is
\* skipped, and a failure goes on with the next app.
RECURSIVE AddCtxChannelGlb(_, _, _, _, _)
AddCtxChannelGlb(name, order, i, o, walk) ==
    With(walk, LAMBDA acc :
    IF i > Len(order) THEN acc
    ELSE LET a == order[i] IN
         IF \/ ~acc.apps[a].compatible \/ ~acc.apps[a].sess.present
            \/ ~acc.apps[a].sess.channels[name].present
         THEN AddCtxChannelGlb(name, order, i + 1, o, acc)
         ELSE With(CreateUstAppChannelContext(a, name,
                       acc.apps[a].sess.channels[name], o[a]),
                   LAMBDA r :
              AddCtxChannelGlb(name, order, i + 1, o,
                  [acc EXCEPT !.apps[a].sess.channels[name] = r.chan,
                              !.calls = @ \o r.calls, !.ret = r.ret])))

\* ust_app_add_ctx_channel_glb(usess, uchan, uctx) for a context that is
\* not in uchan->ctx; the caller adds it there when the return value is 0.
ust_app_add_ctx_channel_glb(name, order, o) ==
    /\ usess.channels[name].present
    /\ ~usess.channels[name].ctx
    /\ order \in Orders
    /\ \E w \in {AddCtxChannelGlb(name, order, 1, o, Walk0)} :
          /\ uapps' = w.apps
          /\ calls' = w.calls
          /\ op' = Op("add_ctx_channel_glb", NoApp, name, w.ret)
          /\ usess' = IF w.ret = "OK"
                      THEN [usess EXCEPT !.channels[name].ctx = TRUE]
                      ELSE usess
    /\ UNCHANGED <<regvars, keyvars, evtvars, kernvars>>

\* SpecCtx: one channel of the global domain and its context, for two
\* apps whose tracers can fail ustctl_add_context.
NextCtx ==
    \/ \E a \in TraceApps : app_registered(a, TRUE)
    \/ \E order \in Orders :
          ust_app_create_channel_glb("ch1", TRUE, order,
                                     [a \in TraceApps |-> "OK"],
                                     [a \in TraceApps |-> OkChan(NbStreams)])
    \/ \E a \in TraceApps, chorder \in NameOrders,
          g \in {x \in GlobalOutcomes(NbStreams) :
                    x.at \in {"none", "session"}} :
          ust_app_global_update(a, chorder, g)
    \/ \E order \in Orders, o \in [TraceApps -> {"OK", "alloc"} \cup UstErrs] :
          ust_app_add_ctx_channel_glb("ch1", order, o)
    \/ \E order \in Orders : ust_app_destroy_trace_all(order)
    \/ \E a \in TraceApps : unregister_sessions(a)

SpecCtx == InitSessOne /\ [][NextCtx]_vars

(***************************************************************************)
(* ust_app_clean_list                                                      *)
(***************************************************************************)
\* The apps that the walk of ust_app_ht yields.
CleanListApps == {ust_app_ht[p] : p \in Pids} \ {NoApp}

\* ust_app_clean_list(), called when the daemon exits and the application
\* management thread is in no call: every node of ust_app_ht is unlinked
\* and its app handed to call_rcu(delete_ust_app_rcu); every node of
\* ust_app_ht_by_sock is unlinked.  The thread makes no call afterwards.
ust_app_clean_list ==
    /\ lpc.op = "idle"
    /\ ust_app_ht' = [p \in Pids |-> NoApp]
    /\ ust_app_ht_by_sock' = [s \in Socks |-> NoApp]
    /\ rcu_cbs' = rcu_cbs \cup {[app |-> a, wait |-> RcuReaders] :
                                   a \in CleanListApps}
    /\ apps' = [a \in DOMAIN apps |->
                   IF a \in CleanListApps
                   THEN [apps[a] EXCEPT !.state = "unregistered"]
                   ELSE apps[a]]
    /\ lpc' = [Idle EXCEPT !.op = "cleaned"]
    /\ UNCHANGED <<ust_consumerd32_fd, ust_consumerd64_fd, sockfd, fd_apps,
                   rdr, chk, keyvars, evtvars, sessvars, kernvars>>

\* SpecClean: registrations, also under a pid that is registered,
\* unregistrations, and the cleaning of the tables at exit.  The call_rcu
\* thread runs every callback whose grace period has ended.
NextClean ==
    \/ \E pid \in Pids, bits \in Bits, sock \in Socks :
          ust_app_register(pid, bits, LTTNG_UST_COMM_MAJOR, sock, FALSE)
    \/ ListenerNext
    \/ \E cb \in rcu_cbs : delete_ust_app(cb)
    \/ ust_app_clean_list

SpecClean ==
    /\ InitLife /\ [][NextClean]_vars
    /\ WF_vars(\E cb \in rcu_cbs : delete_ust_app(cb))

\* The key of the metadata channel on the consumer, session->metadata->fd:
\* a descriptor that no data channel has.
KMetadataFd == MaxKChans + 1

\* Outcomes of kernel_consumer_add_metadata: snprintf, the creation of the
\* trace directory, consumer_send_channel and consumer_send_stream.
KMetaOutcomes ==
    [snprintf : {"OK", "ERR"}, mkdir : {"OK", "EEXIST", "ERR"},
     channel : {"OK", "ERR"}, stream : {"OK", "ERR"}]

\* Variant of kernel_consumer_add_metadata that sends the stream whatever
\* consumer_send_channel returned.
KAddMetadata_mut_stream(sess, no_monitor, o) ==
    IF KPathname(sess, o) # "OK"
    THEN [ret |-> "ERR", msgs |-> <<>>]
    ELSE [ret |-> o.stream,
          msgs |-> <<[KMsg("ADD_CHANNEL", KMetadataFd, 0, 0, o.channel)
                         EXCEPT !.type = "METADATA", !.name = "metadata",
                                !.stream_count = 1],
                     [KMsg("ADD_STREAM", KMetadataFd, sess.metadata_stream_fd,
                           0, o.stream)
                         EXCEPT !.no_monitor = no_monitor]>>]

\* kernel_consumer_add_metadata(sock, session, no_monitor): the channel
\* message of the metadata, then the message of its one stream.
KAddMetadata(sess, no_monitor, o) ==
    IF KPathname(sess, o) # "OK"
    THEN [ret |-> "ERR", msgs |-> <<>>]
    ELSE LET chan == [KMsg("ADD_CHANNEL", KMetadataFd, 0, 0, o.channel)
                         EXCEPT !.type = "METADATA", !.name = "metadata",
                                !.stream_count = 1]
             stream == [KMsg("ADD_STREAM", KMetadataFd,
                             sess.metadata_stream_fd, 0, o.stream)
                           EXCEPT !.no_monitor = no_monitor]
         IN IF o.channel # "OK"
            THEN [ret |-> o.channel, msgs |-> <<chan>>]
            ELSE [ret |-> o.stream, msgs |-> <<chan, stream>>]

\* kernel_consumer_add_metadata for the session, whose metadata is opened;
\* no_monitor is set by the snapshot command.
kernel_consumer_add_metadata(no_monitor, o) ==
    /\ ksess.metadata_stream_fd >= 0
    /\ \E r \in {KAddMetadata(ksess, no_monitor, o)} :
          /\ kmsgs' = r.msgs
          /\ kop' = [name |-> "add_metadata", chan |-> KMetadataFd,
                     ret |-> r.ret]
    /\ UNCHANGED <<ksess, regvars, keyvars, evtvars, sessvars>>

\* Outcomes without failure.
KOkMeta == [snprintf |-> "OK", mkdir |-> "OK", channel |-> "OK",
            stream |-> "OK"]
KOkChan == [snprintf |-> "OK", mkdir |-> "OK", channel |-> "OK", stream |-> 0]

\* Outcomes of kernel_consumer_send_session, which is left at the first
\* failure: the metadata (at = 0) or channel `at' of the list takes any
\* outcome, the others succeed.
KSessOutcomes ==
    {[at |-> 0, meta |-> m, co |-> KOkChan] : m \in KMetaOutcomes}
    \cup {[at |-> i, meta |-> KOkMeta, co |-> c] :
             i \in 1..MaxKChans, c \in KChanOutcomes}

\* The loop of kernel_consumer_send_session over session->channel_list
\* from channel i on.
RECURSIVE KSendChannels(_, _, _)
KSendChannels(sess, i, o) ==
    IF i > Len(sess.channel_list) THEN [ret |-> "OK", msgs |-> <<>>]
    ELSE With(KSendChannelStream(sess, sess.channel_list[i],
                                 IF o.at = i THEN o.co ELSE KOkChan),
              LAMBDA c :
         IF c.ret # "OK" THEN c
         ELSE With(KSendChannels(sess, i + 1, o), LAMBDA t :
              [ret |-> t.ret, msgs |-> c.msgs \o t.msgs]))

\* Variant of kernel_consumer_send_session that goes on to the channels
\* after a failed kernel_consumer_add_metadata.
KSendSession_mut_goes_on(sess, o) ==
    IF ~sess.consumer.enabled
    THEN [ret |-> "LTTNG_OK", sess |-> sess, msgs |-> <<>>]
    ELSE With(IF sess.metadata_stream_fd >= 0
              THEN KAddMetadata(sess, FALSE, o.meta)
              ELSE [ret |-> "OK", msgs |-> <<>>],
              LAMBDA m :
         With(KSendChannels(sess, 1, o), LAMBDA t :
              [ret |-> t.ret,
               sess |-> IF sess.metadata_stream_fd >= 0
                        THEN [sess EXCEPT !.consumer_fds_sent = TRUE]
                        ELSE sess,
               msgs |-> m.msgs \o t.msgs]))

\* kernel_consumer_send_session(sock, session): LTTNG_OK when the consumer
\* is disabled; else the metadata when its stream is opened, the flag
\* consumer_fds_sent, then each channel of the list with its streams.
KSendSession(sess, o) ==
    IF ~sess.consumer.enabled
    THEN [ret |-> "LTTNG_OK", sess |-> sess, msgs |-> <<>>]
    ELSE With(IF sess.metadata_stream_fd >= 0
              THEN KAddMetadata(sess, FALSE, o.meta)
              ELSE [ret |-> "OK", msgs |-> <<>>],
              LAMBDA m :
         IF m.ret # "OK"
         THEN [ret |-> m.ret, sess |-> sess, msgs |-> m.msgs]
         ELSE With(KSendChannels(sess, 1, o), LAMBDA t :
              [ret |-> t.ret,
               sess |-> IF sess.metadata_stream_fd >= 0
                        THEN [sess EXCEPT !.consumer_fds_sent = TRUE]
                        ELSE sess,
               msgs |-> m.msgs \o t.msgs]))

\* kernel_consumer_send_session for the session.
kernel_consumer_send_session(o) ==
    /\ \E r \in {KSendSession(ksess, o)} :
          /\ ksess' = r.sess
          /\ kmsgs' = r.msgs
          /\ kop' = [name |-> "send_session", chan |-> 0, ret |-> r.ret]
    /\ UNCHANGED <<regvars, keyvars, evtvars, sessvars>>

\* SpecKSess: a kernel session whose consumer is enabled or not, local or
\* on the network, whose metadata stream is opened or not, with up to
\* MaxKChans channels that have the same cpus and the same streams opened,
\* sent to the consumer under every outcome.
KSameStreamsLists ==
    UNION {{[i \in 1..n |-> [fd |-> i, stream_list |-> KStreams(i, f)]] :
               f \in KOpened} : n \in 0..MaxKChans}

InitKSess ==
    /\ InitReg /\ InitKey /\ InitEvt /\ InitSess
    /\ NbStreams = 1
    /\ \E enabled \in BOOLEAN, type \in {"LOCAL", "NET"},
          metadata_stream_fd \in {-1, 10 * KMetadataFd},
          channel_list \in KSameStreamsLists :
          ksess = KSession(enabled, type, metadata_stream_fd, channel_list)
    /\ kop = NoKOp
    /\ kmsgs = <<>>

NextKSess ==
    \/ \E no_monitor \in BOOLEAN, o \in KMetaOutcomes :
          kernel_consumer_add_metadata(no_monitor, o)
    \/ \E o \in KSessOutcomes : kernel_consumer_send_session(o)

SpecKSess == InitKSess /\ [][NextKSess]_vars

(***************************************************************************)
(* Properties of the registry.                                             *)
(***************************************************************************)
Apps == DOMAIN apps
InPid(a) == \E pid \in Pids : ust_app_find_by_pid(pid) = a
InSock(a) == \E sock \in Socks : find_app_by_sock(sock) = a
\* ust_app_unregister has returned for a.
Unregistered(a) == apps[a].state \in {"unregistered", "freed"}
Live(a) == apps[a].state = "live"

\* C1: once ust_app_unregister(sock) has returned, neither the socket table
\* nor the pid table returns the unregistered app under any key, in any later
\* state; a later registration under the same pid or socket is another app.
C1_NoLookupAfterUnregister ==
    \A a \in Apps : Unregistered(a) => ~InPid(a) /\ ~InSock(a)

\* An app was unregistered and freed, and its pid and socket number were
\* registered again: both lookups return the new app.
C1_Witness ==
    \E a, b \in Apps :
        /\ apps[a].state = "freed"
        /\ Live(b)
        /\ apps[b].pid = apps[a].pid /\ apps[b].sock = apps[a].sock
        /\ ust_app_find_by_pid(apps[a].pid) = b
        /\ find_app_by_sock(apps[a].sock) = b

Displaced(a) == apps[a].displaced_by # NoApp

\* C3 as stated: every live app is returned by both tables or by neither.
C3_BothOrNeither ==
    \A a \in Apps : Live(a) => (InPid(a) /\ InSock(a)) \/ (~InPid(a) /\ ~InSock(a))

\* C3, as the code has it: every live app is returned by the socket table
\* under its socket; it is returned by the pid table too unless a later
\* registration of the same pid replaced it there; an app that is in neither
\* table is inside or past its unregistration.
C3_SockAlwaysPidUnlessDisplaced ==
    \A a \in Apps :
        /\ Live(a) => find_app_by_sock(apps[a].sock) = a
        /\ Live(a) /\ ~InPid(a) => Displaced(a)
        /\ ~InPid(a) /\ ~InSock(a) => apps[a].state \notin {"registering", "live"}

\* A live app that only the socket table returns: its pid was registered
\* again and it has not been unregistered.
C3_Witness ==
    \E a \in Apps :
        /\ Live(a)
        /\ find_app_by_sock(apps[a].sock) = a
        /\ ust_app_find_by_pid(apps[a].pid) \notin {a, NoApp}
        /\ lpc.op = "idle"

\* C4 as stated: for every live app a, by_socket[a.sock] is a and
\* by_pid[a.pid] is a or another app of the same pid that displaced it.
C4_PidSlotIsAppOrDisplacer ==
    \A a \in Apps :
        Live(a) =>
            /\ find_app_by_sock(apps[a].sock) = a
            /\ LET b == ust_app_find_by_pid(apps[a].pid) IN
               \/ b = a
               \/ b # NoApp /\ apps[b].pid = apps[a].pid /\ Displaced(a)

\* C4, as the code has it: for every live app a, by_socket[a.sock] is a, and
\* by_pid[a.pid] is a, or, when a was displaced, a later registration of the
\* same pid, or nothing once the unregistration of such a later app has
\* emptied the slot.
C4_PidSlotIsAppDisplacerOrEmpty ==
    \A a \in Apps :
        Live(a) =>
            /\ find_app_by_sock(apps[a].sock) = a
            /\ LET b == ust_app_find_by_pid(apps[a].pid) IN
               \/ b = a
               \/ /\ Displaced(a)
                  /\ \/ b # NoApp /\ b > a /\ apps[b].pid = apps[a].pid
                     \/ /\ b = NoApp
                        /\ \E c \in Apps :
                              /\ c > a /\ apps[c].pid = apps[a].pid
                              /\ apps[c].state \notin {"registering", "live"}

\* A live, displaced app whose displacing app has been unregistered: the pid
\* table has nothing under its pid.
C4_Witness ==
    \E a \in Apps :
        /\ Live(a)
        /\ Displaced(a)
        /\ ust_app_find_by_pid(apps[a].pid) = NoApp
        /\ find_app_by_sock(apps[a].sock) = a

\* C5 as stated: once register(pid, S2) has displaced the app registered
\* with S1, the teardown of the displaced app is under way.
C5_DisplacedTornDown ==
    \A a \in Apps :
        Displaced(a) /\ apps[apps[a].displaced_by].state # "registering"
            => ~Live(a)

\* C5, as the code has it: a registration makes by_pid[pid] point to the new
\* app and leaves every app that was live, the displaced one included, live
\* and in the socket table; a live app leaves that state only by the
\* ust_app_unregister call made for its own socket.
C5_TeardownOnlyByOwnUnregister ==
    [][ /\ Len(apps') > Len(apps) =>
              ust_app_ht'[apps'[Len(apps')].pid] = Len(apps')
        /\ \A a \in Apps :
              /\ Live(a) /\ Len(apps') > Len(apps) =>
                    /\ apps'[a].state = "live"
                    /\ ust_app_ht_by_sock'[apps[a].sock] = a
              /\ Live(a) /\ apps'[a].state # "live" =>
                    /\ lpc.op = "idle"
                    /\ lpc'.op = "unregister_pid"
                    /\ lpc'.app = a /\ lpc'.sock = apps[a].sock
      ]_vars

\* register(pid, S2) has returned after register(pid, S1): the pid table
\* returns the new app, the displaced one is live, still returned by the
\* socket table under S1, and no callback is queued.
C5_Witness ==
    \E a, b \in Apps :
        /\ apps[a].displaced_by = b
        /\ Live(a) /\ Live(b)
        /\ ust_app_find_by_pid(apps[a].pid) = b
        /\ find_app_by_sock(apps[a].sock) = a
        /\ rcu_cbs = {}
        /\ lpc.op = "idle"

\* C6: every socket handed to ust_app_register is closed exactly once and
\* one LTTNG_FD_APPS unit is released for it: at once when the registration
\* is refused, otherwise by delete_ust_app of its app.  As a state property:
\* no app's socket is closed or released twice, it is closed exactly when the
\* app is freed and by the callback only; a registration that returned
\* without creating an app has closed and released its socket; so every open
\* socket belongs to an app that is yet to be freed, and the units in use
\* are those of the open sockets of such apps.
C6_SocketClosedOnce ==
    /\ \A a \in Apps :
          /\ apps[a].closes <= 1
          /\ apps[a].puts = apps[a].closes
          /\ apps[a].closes = 1 <=> apps[a].state = "freed"
          /\ apps[a].closes = 1 => apps[a].closed_in = "delete_ust_app"
    /\ lpc.op \in {"register_einval", "register_enomem"} =>
          lpc.closes = 1 /\ lpc.puts = 1
    /\ \A s \in Socks :
          sockfd[s] # NoApp =>
              /\ sockfd[s] \in Apps
              /\ apps[sockfd[s]].sock = s
              /\ apps[sockfd[s]].state # "freed"
    /\ fd_apps = Cardinality({s \in Socks : sockfd[s] # NoApp})
    /\ ~chk.ebadf

\* C7: a register message whose major is not the supported one, or whose
\* bitness has no consumer, returns -EINVAL with the socket closed and one
\* LTTNG_FD_APPS unit released; no app is allocated and both tables are
\* left as they were.
C7_InvalidRegisterRejected ==
    [][ LET m == lpc' IN
        ( /\ lpc.op = "idle"
          /\ m.op \in {"register", "register_einval", "register_enomem"}
          /\ \/ m.major # LTTNG_UST_COMM_MAJOR
             \/ m.bits = 64 /\ ust_consumerd64_fd = "EINVAL"
             \/ m.bits = 32 /\ ust_consumerd32_fd = "EINVAL" )
        => /\ m.op = "register_einval"
           /\ m.closes = 1 /\ m.puts = 1
           /\ sockfd'[m.sock] = NoApp
           /\ fd_apps' = fd_apps
           /\ apps' = apps
           /\ ust_app_ht' = ust_app_ht
           /\ ust_app_ht_by_sock' = ust_app_ht_by_sock
      ]_vars

\* A message with major 99 was refused while an app is registered.
C7_Witness ==
    /\ lpc.op = "register_einval"
    /\ lpc.major # LTTNG_UST_COMM_MAJOR
    /\ lpc.closes = 1 /\ lpc.puts = 1
    /\ \E a \in Apps : Live(a) /\ InPid(a) /\ InSock(a)

\* C8: an app is compatible only if its last version handshake succeeded
\* and returned the supported major; an app that has had no handshake is
\* not compatible.
C8_CompatibleOnlyAfterMatchingHandshake ==
    \A a \in Apps :
        /\ apps[a].compatible =>
              /\ apps[a].handshake = "ok"
              /\ apps[a].version = UST_APP_MAJOR_VERSION
        /\ apps[a].handshake = "none" => ~apps[a].compatible

\* One app passed the handshake; another completed it with a different
\* tracer major and is not compatible.
C8_Witness ==
    \E a, b \in Apps :
        /\ apps[a].compatible
        /\ apps[b].handshake = "ok"
        /\ apps[b].version # UST_APP_MAJOR_VERSION
        /\ ~apps[b].compatible

\* C9: under any interleaving of channel allocations by the threads, no two
\* channels ever receive the same key, and every key is greater than every
\* key drawn before it, freed channels included.
C9_KeysUniqueAndIncreasing ==
    \A i, j \in DOMAIN ua_chans : i < j => ua_chans[i].key < ua_chans[j].key

\* Two threads are between allocation and creation of a data and a metadata
\* channel, after an earlier channel was freed.
C9_Witness ==
    \E i, j, k \in DOMAIN ua_chans :
        /\ i < j /\ j < k
        /\ ua_chans[i].state = "freed"
        /\ ua_chans[j].state = "allocated" /\ ua_chans[k].state = "allocated"
        /\ ua_chans[j].by # ua_chans[k].by
        /\ ua_chans[j].type # ua_chans[k].type

\* The loglevel of the event key: under type ALL, 0 stands for -1.
normalise(loglevel, loglevel_type) ==
    IF loglevel_type = "ALL" /\ loglevel = 0 THEN -1 ELSE loglevel

\* C10: no two events of the channel share the triple (name, normalised
\* loglevel, filter bytes), whatever the order in which events with
\* loglevel 0 and -1 were created.
C10_EventTripleUnique ==
    \A e1, e2 \in events :
        /\ e1.name = e2.name
        /\ normalise(e1.loglevel, e1.loglevel_type)
               = normalise(e2.loglevel, e2.loglevel_type)
        /\ e1.filter = e2.filter
        => e1 = e2

(***************************************************************************)
(* Properties of the session model.                                        *)
(***************************************************************************)
Sess(a) == uapps[a].sess
LastCall == calls[Len(calls)]
\* The positions of the calls log.
Pos == 1..Len(calls)

\* C11: in every reachable state, a session with started = 1 has a metadata
\* channel and that channel has is_sent = 1, so that assert(metadata->is_sent)
\* of ust_app_stop_trace holds.
C11_StartedHasSentMetadata ==
    \A a \in TraceApps :
        Sess(a).started =>
            Sess(a).metadata.present /\ Sess(a).metadata.is_sent

\* ust_app_stop_trace on a started session has passed the assertion and
\* flushed the metadata.
C11_Witness ==
    /\ op.name = "stop_trace"
    /\ Sess(op.app).started
    /\ calls # <<>>
    /\ LastCall.call = "flush" /\ LastCall.obj = "metadata"

\* The channels of the session of app a, the metadata channel included.
SessChans(a) ==
    {Sess(a).channels[c] : c \in ChanNames} \cup {Sess(a).metadata}

\* C12: in every reachable state, after any sequence of
\* ust_app_create_channel_glb, ust_app_global_update and ust_app_start_trace,
\* a channel with is_sent = 1 has an empty stream list: each stream received
\* from the consumer was sent to the application and deleted.
C12_SentChannelOwnsNoStream ==
    \A a \in TraceApps : \A ch \in SessChans(a) :
        ch.present /\ ch.is_sent => ch.streams = 0

\* A data channel and the metadata were sent with two streams each, the last
\* of them by ust_app_start_trace.
C12_Witness ==
    /\ op.name = "start_trace_all"
    /\ \E a \in TraceApps, c \in ChanNames :
          /\ Sess(a).channels[c].is_sent
          /\ Sess(a).channels[c].expected_stream_count = 2
          /\ Sess(a).metadata.is_sent
          /\ Sess(a).metadata.expected_stream_count = 2
          /\ Cardinality({i \in Pos : calls[i].call = "send_stream"
                                       /\ calls[i].obj = "metadata"}) = 2

\* The calls of the log made for app a.
CallsOf(a) == {i \in Pos : calls[i].app = a}

\* In the operation that has just run, every call made for app a returned 0.
AllOk(a) == \A i \in CallsOf(a) : calls[i].ret = "OK"

\* In the operation that has just run, the tracer of app a answered -EPIPE
\* to the channel (ustctl_create_channel through
\* ust_consumer_send_channel_to_ust).
ChannelEpipe(a) ==
    \E i \in CallsOf(a) :
        calls[i].call = "create_channel" /\ calls[i].ret = "EPIPE"

\* C13: ust_app_create_channel_glb over two compatible apps A (alive) and B
\* (tracer returns -EPIPE to the channel), in either iteration order, ends
\* with the channel sent in the shadow of A, no such channel in the shadow
\* of B, and the return value 0.
C13_OneDeadAppReturnsOk ==
    \A A, B \in TraceApps :
        /\ op.name = "create_channel_glb"
        /\ A # B
        /\ \E i \in CallsOf(A) : calls[i].call = "create_channel"
        /\ AllOk(A)
        /\ ChannelEpipe(B)
        => /\ Sess(A).channels[op.chan].present
           /\ Sess(A).channels[op.chan].is_sent
           /\ ~Sess(B).channels[op.chan].present
           /\ op.ret = "OK"

\* In the operation that has just run, a call made for app a about event e
\* failed with a code of the tracer that is not -ENOMEM.
EventCallFailed(a, e) ==
    \E i \in CallsOf(a) : calls[i].ev = e /\ calls[i].ret \in UstErrs

\* The operation that has just run has made the call `name' for event e of
\* app a.
EventCalled(a, name, e) ==
    \E i \in CallsOf(a) : calls[i].call = name /\ calls[i].ev = e

\* C14: in ust_app_enable_event_glb and ust_app_create_event_glb a failure
\* on one app that is not -ENOMEM does not stop the walk: the operation is
\* applied to every other compatible app that has the session and the
\* channel (and, to be enabled, the event), wherever it comes in the walk.
C14_FailureDoesNotStopIteration ==
    \A A, B \in TraceApps : \A e \in SessEvents :
        /\ A # B
        /\ EventCallFailed(A, e)
        /\ InHt(B) /\ uapps[B].compatible
        /\ Sess(B).present /\ Sess(B).channels[op.chan].present
        => /\ op.name = "enable_event_glb"
              /\ Sess(B).channels[op.chan].events[e].present
              => EventCalled(B, "enable_event", e)
           /\ op.name = "create_event_glb"
              /\ ~Sess(B).channels[op.chan].events[e].present
              => EventCalled(B, "create_event", e)

\* In the ust_app_create_event_glb that has just run, event e already existed
\* on app a: find_ust_app_event found it in the shadow (no call was made for
\* the app), or ustctl_create_event answered -LTTNG_UST_ERR_EXIST.
AlreadyExists(a, e) ==
    \/ /\ Sess(a).present
       /\ Sess(a).channels[op.chan].events[e].present
       /\ CallsOf(a) = {}
    \/ \E i \in CallsOf(a) :
          /\ calls[i].call = "create_event" /\ calls[i].ev = e
          /\ calls[i].ret = "UST_ERR_EXIST"

\* C15: in ust_app_create_event_glb an app on which the event already exists,
\* be it found in the shadow or reported by the tracer, counts as a success:
\* no assertion fails and the walk goes on, so every other compatible app
\* with the session and the channel that lacks the event is asked to create
\* it.
C15_ExistIsSuccess ==
    \A A \in TraceApps : \A e \in SessEvents :
        /\ op.name = "create_event_glb"
        /\ InHt(A) /\ uapps[A].compatible
        /\ AlreadyExists(A, e)
        => /\ op.ret # "ASSERT"
           /\ \A B \in TraceApps \ {A} :
                 /\ InHt(B) /\ uapps[B].compatible
                 /\ Sess(B).present /\ Sess(B).channels[op.chan].present
                 /\ ~Sess(B).channels[op.chan].events[e].present
                 => EventCalled(B, "create_event", e)

\* Call i of the log of the step is preceded in that log by a successful
\* call `name' for the same app, object and event.
PrecededBy(i, name, obj, ev) ==
    \E j \in 1..(i - 1) :
        /\ calls'[j].call = name /\ calls'[j].app = calls'[i].app
        /\ calls'[j].obj = obj /\ calls'[j].ev = ev
        /\ calls'[j].ret = "OK"

\* The order of the tracer calls of one step, given what the tracer had
\* accepted for the app before the step.
OrderedCalls ==
    \A i \in 1..Len(calls') :
        LET k == calls'[i]
            s == uapps[k.app].sess
            ch == IF k.obj = "metadata" THEN s.metadata ELSE s.channels[k.obj]
        IN
        /\ k.call = "create_channel" =>
              \/ s.present /\ s.handle
              \/ PrecededBy(i, "create_session", "session", "none")
        /\ k.call = "create_event" =>
              \/ s.present /\ ch.created
              \/ PrecededBy(i, "create_channel", k.obj, "none")
        /\ k.call = "enable_event" =>
              \/ s.present /\ ch.events[k.ev].obj
              \/ PrecededBy(i, "create_event", k.obj, k.ev)

\* C16: within one app and one session the tracer calls are ordered over
\* every execution: create_session succeeds before any create_channel of the
\* session, the create_channel of a channel succeeds before any create_event
\* on it, and the create_event of an event succeeds before any enable of it.
C16_TracerCallsOrdered == [][OrderedCalls]_vars

\* The step tears down the metadata channel of app a.
MetadataTornDown(a) ==
    Sess(a).metadata.present /\ ~uapps'[a].sess.metadata.present

\* The original statement: the metadata of a started session is torn down
\* only after ustctl_stop_session was called for the session.
C17_StopBeforeMetadataTeardown ==
    [][\A a \in TraceApps :
          MetadataTornDown(a) /\ Sess(a).started => Sess(a).stopped]_vars

\* The log of the step releases the metadata object of app a before the
\* objects of the data channels of the session and before its handle.
MetadataReleasedFirst(a) ==
    \E i \in 1..Len(calls') :
        /\ calls'[i].app = a
        /\ calls'[i].call = "release_object" /\ calls'[i].obj = "metadata"
        /\ \A j \in 1..Len(calls') :
              /\ calls'[j].app = a
              /\ \/ calls'[j].call = "release_handle"
                 \/ /\ calls'[j].call = "release_object"
                    /\ calls'[j].obj \in ChanNames
              => i < j

\* C17: the metadata channel of a session is torn down only together with
\* the session, by delete_ust_app_session, which deletes the metadata
\* before the data channels and the handle; this is done by destroy_trace,
\* by ust_app_unregister and by a failed ust_app_global_update, whether or
\* not ustctl_stop_session was called, and never by ust_app_stop_trace.
C17_MetadataTornDownWithSession ==
    [][\A a \in TraceApps :
          MetadataTornDown(a) =>
              /\ ~uapps'[a].sess.present
              /\ op'.name \in {"destroy_trace_all", "unregister",
                               "global_update"}
              /\ MetadataReleasedFirst(a)]_vars

\* ust_app_unregister has torn down a session with its metadata and a data
\* channel, without any call to the tracer but the releases: metadata, data
\* channel, handle.
C17_Witness ==
    /\ op.name = "unregister"
    /\ ~Sess(op.app).present
    /\ \E i, j, k \in Pos :
          /\ i < j /\ j < k
          /\ calls[i].call = "release_object" /\ calls[i].obj = "metadata"
          /\ calls[j].call = "release_object" /\ calls[j].obj \in ChanNames
          /\ calls[k].call = "release_handle"

\* C18: ust_app_stop_trace on a session with started = 0 returns the error
\* without calling ustctl_stop_session, ustctl_wait_quiescent or any flush,
\* so a flush is issued only for a session that ustctl_start_session has
\* started.
C18_StopOfNotStartedDoesNothing ==
    op.name = "stop_trace" =>
        /\ uapps[op.app].compatible /\ Sess(op.app).present
           /\ ~Sess(op.app).started
           => op.ret = "ERR" /\ calls = <<>>
        /\ (\E i \in Pos : calls[i].call \in {"stop_session", "flush"})
           => Sess(op.app).started

\* ust_app_stop_trace has run on a session that has a channel and was never
\* started, and has returned the error.
C18_Witness ==
    /\ op.name = "stop_trace" /\ op.ret = "ERR"
    /\ Sess(op.app).present /\ ~Sess(op.app).started
    /\ \E c \in ChanNames : Sess(op.app).channels[c].is_sent
    /\ calls = <<>>

\* Call i of the log is the flush of a data channel.
DataFlush(i) == calls[i].call = "flush" /\ calls[i].obj \in ChanNames

\* C19: in ust_app_stop_trace on a started session, a flush of a data
\* channel that fails with a code other than -EPIPE and
\* -LTTNG_UST_ERR_EXITING does not end the flush loop: unless the process
\* stops at assert(is_sent), the channels that follow and then the metadata
\* are flushed.  A flush of a data channel that fails with -EPIPE or
\* -LTTNG_UST_ERR_EXITING ends the loop at once and the function returns 0.
C19_FlushLoopControl ==
    op.name = "stop_trace" /\ op.ret # "ASSERT" =>
        /\ \A i \in Pos :
              /\ DataFlush(i) /\ calls[i].ret \notin {"OK"} \cup Vanished
                 => i < Len(calls) /\ calls[i + 1].call = "flush"
              /\ DataFlush(i) /\ calls[i].ret \in Vanished
                 => i = Len(calls) /\ op.ret = "OK"
        /\ /\ \E i \in Pos : DataFlush(i)
           /\ \A i \in Pos : DataFlush(i) => calls[i].ret \notin Vanished
           => /\ \A c \in ChanNames :
                    Sess(op.app).channels[c].present
                    => \E j \in Pos : DataFlush(j) /\ calls[j].obj = c
              /\ LastCall.call = "flush" /\ LastCall.obj = "metadata"

\* The flush of the first channel has failed with another error, the second
\* channel was flushed and its app was gone: the function has returned 0.
C19_Witness ==
    /\ op.name = "stop_trace" /\ op.ret = "OK"
    /\ Len(calls) >= 2
    /\ DataFlush(Len(calls) - 1) /\ calls[Len(calls) - 1].ret = "ERR"
    /\ DataFlush(Len(calls)) /\ LastCall.ret = "EXITING"

\* Call i of the log is followed by ust_consumer_destroy_channel on the
\* same channel and by the return of create_ust_channel with an error.
DestroyedAndFailed(i) ==
    /\ i + 2 <= Len(calls)
    /\ calls[i + 1].call = "destroy_channel"
    /\ calls[i + 1].obj = calls[i].obj
    /\ calls[i + 2].call = "return" /\ calls[i + 2].ret # "OK"

\* C20: in create_ust_channel, for a channel for which the consumer has
\* announced n streams, lttng_fd_get reserves exactly
\* DEFAULT_UST_STREAM_FD_NUM * n = 2n units right after the consumer has
\* created the channel; when the reservation fails the consumer is asked to
\* destroy the channel and the error is returned; when
\* ust_consumer_get_channel then fails, exactly 2n units are given back and
\* the consumer is asked to destroy the channel.
C20_FdReservation ==
    \A i \in Pos :
        /\ calls[i].call = "fd_get" =>
              /\ i > 1
              /\ calls[i - 1].call = "ask_channel"
              /\ calls[i - 1].obj = calls[i].obj
              /\ calls[i - 1].ret = "OK"
              /\ calls[i].n = 2 * calls[i - 1].n
              /\ calls[i].ret # "OK" => DestroyedAndFailed(i)
        /\ calls[i].call = "get_channel" /\ calls[i].ret # "OK" =>
              /\ i > 2 /\ i + 1 <= Len(calls)
              /\ calls[i - 1].call = "fd_get"
              /\ calls[i + 1].call = "fd_put"
              /\ calls[i + 1].obj = calls[i].obj
              /\ calls[i + 1].n = calls[i - 1].n
              /\ calls[i + 1].n = 2 * calls[i - 2].n
              /\ DestroyedAndFailed(i + 1)

\* The consumer has announced two streams, four units were reserved, and
\* ust_consumer_get_channel has failed: four units were given back.
C20_Witness ==
    \E i \in Pos :
        /\ calls[i].call = "get_channel" /\ calls[i].ret # "OK"
        /\ i > 2 /\ i + 1 <= Len(calls)
        /\ calls[i - 2].call = "ask_channel" /\ calls[i - 2].n = 2
        /\ calls[i - 1].call = "fd_get" /\ calls[i - 1].n = 4
        /\ calls[i + 1].call = "fd_put" /\ calls[i + 1].n = 4

(***************************************************************************)
(* Properties of the handoff of channels and streams.                      *)
(***************************************************************************)
\* The channel named obj of session s, "metadata" naming the metadata.
ChanOf(s, obj) == IF obj = "metadata" THEN s.metadata ELSE s.channels[obj]

\* Call j of the log is the successful ust_consumer_send_channel_to_ust of
\* channel obj of app a.
ChannelSentAt(j, a, obj) ==
    /\ calls[j].call = "create_channel"
    /\ calls[j].app = a /\ calls[j].obj = obj
    /\ calls[j].ret = "OK"

\* Every ust_consumer_send_stream_to_ust of the log follows, in the same run
\* of create_ust_channel, the successful send of its channel.
UstChannelFirst ==
    \A i \in Pos :
        calls[i].call = "send_stream" =>
            \E j \in 1..(i - 1) :
                /\ ChannelSentAt(j, calls[i].app, calls[i].obj)
                /\ \A k \in (j + 1)..(i - 1) :
                      ~(calls[k].call = "return" /\ calls[k].app = calls[i].app)

\* Every ADD_STREAM handed to the kernel consumer follows a successful
\* ADD_CHANNEL of the same channel key.
KernelChannelFirst ==
    \A i \in DOMAIN kmsgs :
        kmsgs[i].cmd = "ADD_STREAM" =>
            \E j \in 1..(i - 1) :
                /\ kmsgs[j].cmd = "ADD_CHANNEL"
                /\ kmsgs[j].channel_key = kmsgs[i].channel_key
                /\ kmsgs[j].ret = "OK"

\* A step that sets is_sent on a channel has sent the channel and then, with
\* success, each of the streams the consumer announced.
IsSentAfterStreams ==
    \A a \in TraceApps : \A c \in ChanNames \cup {"metadata"} :
        (/\ ChanOf(uapps'[a].sess, c).is_sent
         /\ ~ChanOf(uapps[a].sess, c).is_sent)
        => \E j \in 1..Len(calls') :
              /\ calls'[j].call = "create_channel"
              /\ calls'[j].app = a /\ calls'[j].obj = c
              /\ calls'[j].ret = "OK"
              /\ Cardinality({k \in (j + 1)..Len(calls') :
                                 /\ calls'[k].call = "send_stream"
                                 /\ calls'[k].app = a /\ calls'[k].obj = c
                                 /\ calls'[k].ret = "OK"})
                    = ChanOf(uapps'[a].sess, c).expected_stream_count
              /\ \A k \in 1..Len(calls') :
                    (/\ calls'[k].call = "send_stream"
                     /\ calls'[k].app = a /\ calls'[k].obj = c)
                    => k > j /\ calls'[k].ret = "OK"

\* C21: in every handoff the channel is sent before its streams.  In
\* create_ust_channel, ust_consumer_send_channel_to_ust has succeeded before
\* any ust_consumer_send_stream_to_ust is made, and is_sent is set only by a
\* step in which every stream of the channel was sent; in
\* kernel_consumer_send_channel_stream the ADD_CHANNEL message of a channel
\* was sent with success before any ADD_STREAM message of that channel.
C21_ChannelBeforeStreams ==
    [][/\ UstChannelFirst'
       /\ KernelChannelFirst'
       /\ IsSentAfterStreams]_vars

\* A data channel of an app was sent with its two streams, and a kernel
\* channel with its two streams.
C21_Witness ==
    /\ op.name = "create_channel_glb"
    /\ \E a \in TraceApps :
          /\ Sess(a).channels["ch1"].is_sent
          /\ Cardinality({i \in Pos : /\ calls[i].call = "send_stream"
                                      /\ calls[i].obj = "ch1"
                                      /\ calls[i].ret = "OK"}) = 2
    /\ kop.name = "send_channel_stream" /\ kop.ret = "OK"
    /\ Len(kmsgs) = 3
    /\ kmsgs[1].cmd = "ADD_CHANNEL"
    /\ kmsgs[2].cmd = "ADD_STREAM" /\ kmsgs[3].cmd = "ADD_STREAM"

(***************************************************************************)
(* Properties of the session teardown under the read-side lock.            *)
(***************************************************************************)
\* The session a thread inside a read-side critical section has obtained
\* from app->sessions: by lookup_session_by_app for a command thread, by
\* the iteration of ust_app_unregister for the application management
\* thread.  A session of state "destroyed" was deleted and freed.
HeldSessions ==
    {rdr[r].ua_sess : r \in {x \in Readers : rdr[x].locked}}
    \cup (IF lpc.op = "unregister_sess"
          THEN {[app |-> lpc.app, sid |-> lpc.ua_sess]} ELSE {})

\* C22: no ust_app_session is destroyed (channels, events and handle
\* released, memory freed) while a thread that obtained it inside a
\* read-side critical section is still inside that section, whether it is
\* destroyed by destroy_trace, by the destroy_session of an error path, or
\* by the teardown that follows ust_app_unregister.
C22_NoSessionFreedUnderReader ==
    \A h \in HeldSessions :
        h # NoUaSessPtr => apps[h.app].sess[h.sid] # "destroyed"

(***************************************************************************)
(* Properties of the operations on a channel that an app lacks.            *)
(***************************************************************************)
\* App a has a session for the global session and that session has no
\* channel named c.
LacksChannel(a, c) ==
    /\ InHt(a) /\ uapps[a].compatible
    /\ Sess(a).present
    /\ ~Sess(a).channels[c].present

\* A step of ust_app_create_event_glb or ust_app_enable_event_glb on
\* channel c skips the apps that lack c: no assertion fails, nothing is
\* called for such an app and its session is left as it is.
SkipsAppsLacking(c) ==
    (/\ op'.name \in {"create_event_glb", "enable_event_glb"}
     /\ op'.chan = c)
    => \A a \in TraceApps :
          LacksChannel(a, c) =>
              /\ op'.ret # "ASSERT"
              /\ uapps'[a] = uapps[a]
              /\ \A i \in 1..Len(calls') : calls'[i].app # a

\* C23: in a global operation on a channel, an app that has a session for
\* the global session but lacks the channel is skipped without error and
\* without assertion failure.
C23_MissingChannelSkipsApp ==
    [][\A c \in ChanNames : SkipsAppsLacking(c)]_vars

(***************************************************************************)
(* Properties of the event key.                                            *)
(***************************************************************************)
\* The key of the event: name, normalised loglevel and filter bytes.
EventKey(e) ==
    [name |-> e.name, loglevel |-> normalise(e.loglevel, e.loglevel_type),
     filter |-> e.filter]

\* C24: ust_app_disable_event_glb and ust_app_disable_event_pid select the
\* event of the channel by the key (name, normalised loglevel, filter
\* bytes) of uevent: whatever the table and the event asked for, the event
\* with that key has its enabled flag cleared and every other event, also
\* one of the same name with another filter or loglevel, is left as it is.
C24_DisableSelectsByKey ==
    \A uevent \in NamedUEvents : \A ht \in DisableResults(events, uevent) :
        \A e \in events :
            IF EventKey(e) = EventKey(uevent)
            THEN [e EXCEPT !.enabled = FALSE] \in ht
            ELSE e \in ht

(***************************************************************************)
(* Properties of the enumerations.                                         *)
(***************************************************************************)
\* The operation that has just run is an enumeration.
ListOp == op.name \in {"list_events", "list_event_fields"}

\* The calls of the log that obtained entries from an app.
ListGets ==
    {i \in Pos : calls[i].call \in {"tracepoint_list_get",
                                    "tracepoint_field_list_get"}}

\* The number of entries obtained by the calls of positions S.
RECURSIVE Entries(_)
Entries(S) ==
    IF S = {} THEN 0
    ELSE LET i == CHOOSE x \in S : TRUE IN calls[i].n + Entries(S \ {i})

\* C25: an enumeration in which no allocation fails and every failing tracer
\* call (the list call or the get call of an app) reports that the app is
\* gone returns with success: every compatible app was asked, and the
\* entries obtained from the apps are returned.
C25_EnumerationToleratesVanishedApp ==
    (/\ ListOp
     /\ \A i \in Pos : calls[i].ret \in {"OK", "NOENT"} \cup Vanished)
    => /\ op.ret = "OK"
       /\ \A a \in Registered :
             uapps[a].compatible => \E i \in Pos : calls[i].app = a
       /\ LastCall.n = Entries(ListGets)

\* The event uevent asks for has the name, the loglevel and the filter of e.
SameTriple(uevent, e) ==
    /\ uevent.name = e.name
    /\ uevent.loglevel = e.loglevel
    /\ uevent.filter = e.filter

\* C26: create_ust_app_event for an event whose name, loglevel and filter
\* equal those of an event of the channel returns -EEXIST, makes no tracer
\* call and leaves the table as it is; for an event with the name and the
\* loglevel of an event of the channel but other filter bytes, whose key no
\* event of the channel has, it succeeds and adds a second event.
C26_DuplicateRefusedOtherFilterAdded ==
    \A e \in events : \A uevent \in NamedUEvents :
        \A r \in {CreateEventHt(events, uevent, FALSE, FALSE, TRUE)} :
            /\ SameTriple(uevent, e) =>
                  /\ r.ret = "EEXIST"
                  /\ r.ustctl = 0
                  /\ r.events = events
            /\ (/\ uevent.name = e.name
                /\ uevent.loglevel = e.loglevel
                /\ uevent.loglevel_type = e.loglevel_type
                /\ uevent.filter # e.filter
                /\ \A x \in events : EventKey(x) # EventKey(uevent))
               => /\ r.ret = "OK"
                  /\ e \in r.events
                  /\ Cardinality(r.events) = Cardinality(events) + 1
                  /\ \E x \in r.events \ events : SameTriple(uevent, x)

\* A second event of the same name and loglevel was added with another
\* filter, and the first one was then refused.
C26_Witness ==
    /\ ev_ret = "EEXIST"
    /\ \E e1, e2 \in events :
          /\ e1.name = e2.name
          /\ e1.loglevel = e2.loglevel
          /\ e1.filter.present /\ e2.filter.present
          /\ e1.filter.data # e2.filter.data

(***************************************************************************)
(* Enable followed by disable (C27).                                       *)
(***************************************************************************)
\* ust_app_disable_event_glb has just followed ust_app_enable_event_glb for
\* the same uevent, and the tracer failed neither.
PairDone == ev_glb.phase = "disabled"

\* The events of the table that the enable found under the key of uevent.
Keyed(ht, uevent) ==
    find_ust_app_event(ht, uevent.name, uevent.filter, uevent.loglevel)

\* C27 as stated: after ust_app_enable_event_glb followed by
\* ust_app_disable_event_glb on the same inputs, with no tracer failure,
\* every event of the channel has the enabled flag it had before the two
\* calls.
C27_PairRestoresEnabled == PairDone => events = ev_glb.before

\* C27, amended: after the two calls the events of another name have the
\* flag they had before, no event was added or removed, and in a channel
\* whose only event of that name is the one with the key of the uevent that
\* event is disabled: it has its prior flag when it was disabled before the
\* two calls, and not when it was enabled.
C27_PairLeavesKeyedDisabled ==
    PairDone =>
        /\ \A e \in ev_glb.before : e.name # ev_glb.uevent.name => e \in events
        /\ Cardinality(events) = Cardinality(ev_glb.before)
        /\ \A e \in ev_glb.before :
              (/\ LookupByName(ev_glb.before, ev_glb.uevent.name) = {e}
               /\ Keyed(ev_glb.before, ev_glb.uevent) = {e})
                  => /\ events = SetEnabled(ev_glb.before, e, FALSE)
                     /\ (events = ev_glb.before) = ~e.enabled

\* The pair ran on a channel whose only event of that name has the key and
\* was disabled before, next to an event of another name, and the table is
\* as before.
C27_Witness ==
    /\ PairDone
    /\ events = ev_glb.before
    /\ \E e \in events :
          /\ LookupByName(events, ev_glb.uevent.name) = {e}
          /\ Keyed(ev_glb.before, ev_glb.uevent) = {e}
          /\ ~e.enabled
    /\ \E x \in events : x.name # ev_glb.uevent.name

(***************************************************************************)
(* The metadata of a session is created once (C28).                        *)
(***************************************************************************)
\* The step is ust_app_start_trace_all and its ust_app_start_trace for app a
\* calls create_ust_app_metadata on a session that has its metadata: the
\* session was not started and the trace directory was made.
SecondMetadataCall(a) ==
    /\ op'.name = "start_trace_all"
    /\ InHt(a) /\ uapps[a].compatible
    /\ Sess(a).present /\ ~Sess(a).started /\ Sess(a).metadata.present
    /\ \E i \in 1..Len(calls') :
          /\ calls'[i].app = a
          /\ calls'[i].call = "mkdir" /\ calls'[i].ret = "OK"

\* The calls of a channel creation: to the consumer, to the fd accounting
\* and to the tracer.
ChannelCreationCalls ==
    {"ask_channel", "fd_get", "fd_put", "get_channel", "destroy_channel",
     "create_channel", "send_stream", "release_object", "disable"}

\* C28: when the session has its metadata channel, create_ust_app_metadata
\* returns 0 whatever the allocation, the consumer and the tracer would have
\* answered, makes no call and leaves the session as it is: a
\* ust_app_start_trace that reaches it makes no call to the consumer, to the
\* fd accounting or to the tracer for a channel, goes on to
\* ustctl_start_session, and changes nothing of the session but started.
C28_MetadataCreatedOnce ==
    [][\A a \in TraceApps :
          SecondMetadataCall(a) =>
              /\ \A o \in StartOutcomes(NbStreams) :
                    CreateUstAppMetadata(a, Sess(a), o)
                        = [ret |-> "OK", sess |-> Sess(a), calls |-> <<>>]
              /\ \A i \in 1..Len(calls') :
                    calls'[i].app = a =>
                        calls'[i].call \notin ChannelCreationCalls
              /\ \E i \in 1..Len(calls') :
                    calls'[i].app = a /\ calls'[i].call = "start_session"
              /\ uapps'[a].sess.metadata = Sess(a).metadata
              /\ uapps'[a].sess \in {Sess(a), [Sess(a) EXCEPT !.started = TRUE]}
      ]_vars

\* ust_app_start_trace ran again on a session whose first start had created
\* the metadata and failed in ustctl_start_session: the log holds the trace
\* directory and the start only, and the session is started.
C28_Witness ==
    /\ op.name = "start_trace_all"
    /\ \E a \in TraceApps :
          /\ Sess(a).started /\ Sess(a).metadata.is_sent
          /\ Len(calls) = 3
          /\ calls[1].call = "mkdir" /\ calls[1].app = a
          /\ calls[2].call = "start_session" /\ calls[2].ret = "OK"

(***************************************************************************)
(* shadow_copy_session applied twice (C29).                                *)
(***************************************************************************)
\* The sessions shadow_copy_session can be given in this state: the one
\* alloc_ust_app_session returns and the session of each app.
CopyTargets == {NoUaSess} \cup {Sess(a) : a \in TraceApps}

\* The projection of a session: the names of its channels, their type and
\* enabled flag, and their events with their enabled flag.
Projected(sess) ==
    [c \in {x \in ChanNames : sess.channels[x].present} |->
        [type |-> sess.channels[c].type,
         enabled |-> sess.channels[c].enabled,
         events |-> [e \in {x \in SessEvents :
                              sess.channels[c].events[x].present} |->
                        sess.channels[c].events[e].enabled]]]

Logged(a, name, r) ==
    \E i \in Pos :
        calls[i].app = a /\ calls[i].call = name /\ calls[i].ret = r

KSent(cmd) == {i \in 1..Len(kmsgs') : kmsgs'[i].cmd = cmd}

\* The log of a kernel_consumer_add_metadata step with flag no_monitor
\* under outcome o.
MetadataHandoff(no_monitor, o) ==
    /\ Cardinality(KSent("ADD_CHANNEL")) <= 1
    /\ Cardinality(KSent("ADD_STREAM")) <= 1
    /\ \A i \in KSent("ADD_CHANNEL") :
          /\ i = 1
          /\ kmsgs'[i].type = "METADATA"
          /\ kmsgs'[i].name = "metadata"
          /\ kmsgs'[i].stream_count = 1
    /\ \A i \in KSent("ADD_STREAM") :
          /\ i = 2
          /\ kmsgs'[1].cmd = "ADD_CHANNEL" /\ kmsgs'[1].ret = "OK"
          /\ kmsgs'[i].channel_key = kmsgs'[1].channel_key
          /\ kmsgs'[i].cpu = 0
          /\ kmsgs'[i].no_monitor = no_monitor
    /\ (ksess.consumer.type = "LOCAL" /\ o.mkdir = "ERR") => kmsgs' = <<>>
    /\ (o.snprintf = "OK" /\ o.mkdir = "EEXIST") =>
          Cardinality(KSent("ADD_CHANNEL")) = 1
    /\ o.channel # "OK" => KSent("ADD_STREAM") = {}
    /\ (Cardinality(KSent("ADD_CHANNEL")) = 1 /\ kmsgs'[1].ret = "OK") =>
          Cardinality(KSent("ADD_STREAM")) = 1

\* C31: kernel_consumer_add_metadata sends at most one ADD_CHANNEL, of type
\* METADATA, named "metadata", with stream count 1, and exactly one
\* ADD_STREAM after it when that send succeeded, for cpu 0 with the no_monitor
\* flag of the caller; it sends nothing when the trace directory of a local
\* consumer cannot be made, -EEXIST excepted, and no ADD_STREAM when
\* ADD_CHANNEL fails.
C31_MetadataHandoff ==
    [][\A no_monitor \in BOOLEAN, o \in KMetaOutcomes :
          kernel_consumer_add_metadata(no_monitor, o)
              => MetadataHandoff(no_monitor, o)]_vars

\* The metadata was handed off for a snapshot: its channel, then its stream
\* with no_monitor set.
C31_Witness ==
    /\ kop.name = "add_metadata" /\ kop.ret = "OK"
    /\ Len(kmsgs) = 2
    /\ kmsgs[1].cmd = "ADD_CHANNEL" /\ kmsgs[1].type = "METADATA"
    /\ kmsgs[2].cmd = "ADD_STREAM" /\ kmsgs[2].no_monitor
    /\ ksess.consumer.type = "LOCAL"

(***************************************************************************)
(* The handoff of a kernel session (C40).                                  *)
(***************************************************************************)
\* The positions of the messages of the step for the metadata channel, and
\* for the data channels.
KMetaMsgs == {i \in 1..Len(kmsgs') : kmsgs'[i].channel_key = KMetadataFd}
KDataMsgs == {i \in 1..Len(kmsgs') : kmsgs'[i].channel_key # KMetadataFd}

\* The metadata handoff of the step succeeded: its channel and its stream
\* were sent, first.
KMetadataSent ==
    /\ Len(kmsgs') >= 2
    /\ KMetaMsgs = {1, 2}
    /\ kmsgs'[1].cmd = "ADD_CHANNEL" /\ kmsgs'[1].ret = "OK"
    /\ kmsgs'[2].cmd = "ADD_STREAM" /\ kmsgs'[2].ret = "OK"

\* The data channels of the step: those that have a message.
KDataSent == {kmsgs'[i].channel_key : i \in KDataMsgs}

\* The log and the session after a kernel_consumer_send_session step.  The
\* fd of a data channel is its position in the channel list.
SessionHandoff ==
    /\ ~ksess.consumer.enabled =>
          kmsgs' = <<>> /\ ksess' = ksess /\ kop'.ret = "LTTNG_OK"
    /\ ksess.metadata_stream_fd < 0 => KMetaMsgs = {}
    /\ \A i \in KMetaMsgs, j \in KDataMsgs : i < j
    /\ KDataMsgs # {} /\ ksess.metadata_stream_fd >= 0 => KMetadataSent
    /\ ksess'.consumer_fds_sent =
          (ksess.consumer_fds_sent \/ KMetadataSent)
    /\ \A i \in 1..Len(kmsgs') : kmsgs'[i].ret # "OK" => i = Len(kmsgs')
    /\ \A i, j \in KDataMsgs :
          i < j => kmsgs'[i].channel_key <= kmsgs'[j].channel_key
    /\ KDataSent = 1..Cardinality(KDataSent)
    /\ kop'.ret \notin {"OK", "LTTNG_OK"} =>
          \/ kmsgs' # <<>> /\ kmsgs'[Len(kmsgs')].ret # "OK"
          \/ Cardinality(KDataSent) < Len(ksess.channel_list)
          \/ ksess.metadata_stream_fd >= 0 /\ kmsgs' = <<>>
    /\ (ksess.consumer.enabled /\ kop'.ret = "OK") =>
          /\ Cardinality(KDataSent) = Len(ksess.channel_list)
          /\ ksess.metadata_stream_fd >= 0 => KMetadataSent

\* C40: kernel_consumer_send_session sends nothing when the consumer of the
\* session is disabled; otherwise it sends the metadata channel and stream,
\* when the metadata stream is opened, before any data channel, sets
\* consumer_fds_sent only when that handoff succeeded, and after the first
\* failing send sends no other channel or stream: the channels sent are the
\* first ones of the list, in order, and a send that failed is the last.
C40_SessionHandoff ==
    [][kop'.name = "send_session" => SessionHandoff]_vars

\* The metadata and the first channel were sent, the flag is set, and the
\* send of a stream of the second channel failed: it is the last message.
C40_Witness ==
    /\ kop.name = "send_session" /\ kop.ret = "ERR"
    /\ ksess.consumer_fds_sent
    /\ Len(kmsgs) >= 5
    /\ kmsgs[1].channel_key = KMetadataFd /\ kmsgs[1].cmd = "ADD_CHANNEL"
    /\ kmsgs[2].channel_key = KMetadataFd /\ kmsgs[2].cmd = "ADD_STREAM"
    /\ kmsgs[3].channel_key = 1
    /\ kmsgs[Len(kmsgs)].channel_key = 2
    /\ kmsgs[Len(kmsgs)].cmd = "ADD_STREAM"
    /\ kmsgs[Len(kmsgs)].ret = "ERR"

(***************************************************************************)
(* The channels of a started session (C32).                                *)
(***************************************************************************)
\* C32: in every reachable state, every channel in the channels table of a
\* session with started = 1 has is_sent = 1, so that assert(ua_chan->is_sent)
\* in the flush loop of ust_app_stop_trace holds, also for the channels that
\* shadow_copy_session copied into a session made by
\* ust_app_create_channel_glb.
C32_StartedChannelsSent ==
    \A a \in TraceApps :
        Sess(a).present /\ Sess(a).started =>
            \A c \in ChanNames :
                Sess(a).channels[c].present => Sess(a).channels[c].is_sent

\* Units of LTTNG_FD_APPS that the calls named call of the first i entries of
\* log move for channel name of app a (a failed lttng_fd_get reserves none).
RECURSIVE FdUnits(_, _, _, _, _)
FdUnits(log, i, a, name, call) ==
    IF i = 0 THEN 0
    ELSE FdUnits(log, i - 1, a, name, call)
         + (IF /\ log[i].call = call /\ log[i].app = a /\ log[i].obj = name
               /\ log[i].ret = "OK"
            THEN log[i].n ELSE 0)

\* C33: at every point of an operation, the units given back with
\* lttng_fd_put on behalf of a channel of an app (streams deleted after
\* they were sent, the channel object released, the error paths of the
\* handoff) do not exceed the units lttng_fd_get reserved for that channel.
C33_FdBalance ==
    \A i \in 1..Len(calls) :
        calls[i].call = "fd_put" =>
            FdUnits(calls, i, calls[i].app, calls[i].obj, "fd_put")
                <= FdUnits(calls, i, calls[i].app, calls[i].obj, "fd_get")

\* create_ust_channel returned r for channel name of app a at position i of
\* log.
ReturnedAt(log, i, a, name) ==
    /\ log[i].call = "return" /\ log[i].app = a /\ log[i].obj = name

\* The call named call was made for channel name of app a in log.
Made(log, call, a, name) ==
    \E j \in 1..Len(log) :
        /\ log[j].call = call /\ log[j].app = a /\ log[j].obj = name

\* C39: create_ust_app_channel adds the channel to ua_sess->channels only
\* when create_ust_channel succeeded.  When it failed, also on the disable
\* issued after is_sent was set for a channel that is not enabled, the
\* channel is not in the table, it is deleted (the object it got from the
\* consumer is released) and the releases of that deletion are given the
\* socket of the app if is_sent was set and -1 otherwise.
C39_FailedCreateNotInserted ==
    [][op'.name = "create_channel_glb" =>
         \A a \in TraceApps, i \in 1..Len(calls') :
            ReturnedAt(calls', i, a, op'.chan) =>
               IF calls'[i].ret = "OK"
               THEN /\ uapps'[a].sess.channels[op'.chan].present
                    /\ uapps'[a].sess.channels[op'.chan].is_sent
               ELSE /\ ~uapps'[a].sess.channels[op'.chan].present
                    /\ Made(calls', "get_channel", a, op'.chan)
                       /\ calls'[i - 1].call # "destroy_channel"
                       => \E j \in (i + 1)..Len(calls') :
                             /\ calls'[j].call = "release_object"
                             /\ calls'[j].obj = op'.chan
                    /\ \A j \in (i + 1)..Len(calls') :
                          /\ calls'[j].call \in Releases
                          /\ calls'[j].obj = op'.chan
                          => calls'[j].sock =
                                IF Made(calls', "disable", a, op'.chan)
                                THEN a ELSE NoSock]_vars

\* A channel that is not enabled was sent to the app, whose tracer then
\* failed to disable it: the channel is not in the table and its object was
\* released on the socket of the app.
C39_Witness ==
    /\ op.name = "create_channel_glb" /\ op.ret # "OK"
    /\ uapps[1].sess.present /\ ~uapps[1].sess.channels[op.chan].present
    /\ \E i, j \in 1..Len(calls) :
          /\ i < j
          /\ calls[i].call = "disable" /\ calls[i].ret # "OK"
          /\ calls[j].call = "release_object" /\ calls[j].obj = op.chan
          /\ calls[j].sock = 1

\* C34: a channel of an app that was handed off (is_sent) is not handed off
\* again while it lives: no operation asks the consumer for it, reserves
\* units for it, gets it or sends it to the app a second time.
C34_HandoffOnce ==
    [][\A a \in TraceApps, c \in ChanNames :
          /\ uapps[a].sess.present
          /\ uapps[a].sess.channels[c].present
          /\ uapps[a].sess.channels[c].is_sent
          => \A i \in 1..Len(calls') :
                calls'[i].app = a /\ calls'[i].obj = c
                => calls'[i].call \notin {"ask_channel", "fd_get",
                                          "get_channel", "create_channel"}]_vars

\* C35: with ust_app_unregister racing destroy_session on the same app,
\* every session of the app is destroyed once.  A session that
\* destroy_session has destroyed is never put on teardown_head for
\* delete_ust_app to destroy it again; ust_app_unregister leaves no session
\* in app->sessions when it queues the deletion, and delete_ust_app leaves
\* none on teardown_head.
C35_SessionDestroyedOnce ==
    /\ [][\A a \in DOMAIN apps, sid \in SessIds :
             apps[a].sess[sid] = "destroyed"
             => apps'[a].sess[sid] = "destroyed"]_vars
    /\ [][lpc.op = "unregister_rcu" /\ lpc'.op = "idle"
          => \A sid \in SessIds : apps'[lpc.app].sess[sid] # "live"]_vars
    /\ [](\A a \in DOMAIN apps, sid \in SessIds :
             apps[a].state = "freed" => apps[a].sess[sid] # "teardown")

\* The apps that are linked in ust_app_ht or in ust_app_ht_by_sock.
InEitherIndex ==
    ({ust_app_ht[p] : p \in Pids}
     \cup {ust_app_ht_by_sock[s] : s \in Socks}) \ {NoApp}

\* C36: ust_app_clean_list hands every app that is in one of the two
\* tables to call_rcu, also an app that a registration under the same pid
\* has unlinked from ust_app_ht, and once it has run every app is
\* eventually freed with its socket closed.
C36_CleanListReclaimsAll ==
    /\ [][lpc.op = "idle" /\ lpc'.op = "cleaned"
          => \A a \in InEitherIndex :
                \E cb \in rcu_cbs' : cb.app = a]_vars
    /\ (lpc.op = "cleaned")
          ~> (\A a \in DOMAIN apps :
                 apps[a].state = "freed" /\ apps[a].closes >= 1)

\* C37: a channel that is enabled in the global domain is enabled in the
\* session of every compatible app that has it, so that the assertion of
\* ust_app_disable_channel_glb on ua_chan->enabled never fails.
C37_DisableFindsChannelEnabled ==
    /\ op.ret # "ASSERT_ENABLED"
    /\ \A c \in ChanNames, a \in Registered :
          /\ usess.channels[c].present /\ usess.channels[c].enabled
          /\ uapps[a].compatible /\ uapps[a].sess.present
          /\ uapps[a].sess.channels[c].present
          => uapps[a].sess.channels[c].enabled

\* C38: a context is in ua_chan->ctx of an app only if ustctl_add_context
\* created it on the tracer of that app: a failed ust_app_add_ctx_channel_glb
\* leaves the shadow as it was and can be tried again.
C38_ContextOnlyIfOnTracer ==
    \A a \in TraceApps, c \in ChanNames :
        /\ uapps[a].sess.present /\ uapps[a].sess.channels[c].present
        /\ uapps[a].sess.channels[c].is_sent
        /\ uapps[a].sess.channels[c].ctx.present
        => uapps[a].sess.channels[c].ctx.obj
====
